---- MODULE Spec2Model ----
(***************************************************************************)
(* Model of the slow-loris protection middleware of helios-backups-provider *)
(* (utils/SlowLorisProtection.ts, adaptive generation) with the constants   *)
(* of config/security.ts.                                                   *)
(*                                                                          *)
(* Time is in milliseconds, as returned by Date.now().  Every handler is a  *)
(* run-to-completion JavaScript callback: it is one atomic action.  The     *)
(* Date.now() reads of a handler return the same value `now`, except in a   *)
(* denial, whose retryAfter depends on the difference of two reads (see     *)
(* ClockReads).  The clock only moves forward (no wall-clock adjustment).   *)
(***************************************************************************)
EXTENDS Integers, Sequences, FiniteSets, Bags, TLC

VARIABLES
    now,              \* Date.now()
    connectionMap,    \* SlowLorisProtection.connectionMap : ip -> ConnectionTracker
    downloadMap,      \* SlowLorisProtection.downloadMap   : ip -> DownloadTracker
    detached,         \* DownloadTracker objects deleted from downloadMap but still
                      \* captured by the closures of an in-flight download: id -> tracker
    connReqs,         \* bag of accepted non-download requests whose 'close' has not fired
    dlReqs,           \* bag of accepted downloads whose 'close' has not fired
    cleanupInterval,  \* TRUE while the setInterval of the static initializer is armed
    accepted,         \* number of requests the middleware has accepted so far
    written,          \* number of Buffer chunks the downloads have written so far
    traffic,          \* the kind of requests the run's client sends
    daemon,           \* helios-backups.pid, the daemons spawned and the pending stop
    limiter,          \* the store of the rateLimit middleware: ip -> hits of the window
    throttle,         \* the Throttle of one download: its bucket and the bytes passed
    cli,              \* process.argv.slice(2) and the fields of the CLI object
    out               \* what the last handler did that is visible outside the maps

vars == <<now, connectionMap, downloadMap, detached, connReqs, dlReqs,
          cleanupInterval, accepted, written, traffic, daemon, limiter, throttle, cli, out>>

----------------------------------------------------------------------------
(* Constants of src/config/security.ts *)
MAX_CONCURRENT_CONNECTIONS == 100
MAX_SLOW_CONNECTIONS == 50
MAX_SLOW_DOWNLOADS == 5
MIN_TRANSFER_RATE == 256
MAX_DOWNLOAD_DURATION == 3600000
SLOW_DOWNLOAD_THRESHOLD == 128
DOWNLOAD_BLOCK_DURATION == 300000
REQUEST_TIMEOUT == 60000
RESPONSE_TIMEOUT == 120000
CONNECTION_TIMEOUT == 300000
SLOW_LORIS_BLOCK_DURATION == 600000
SLOW_LORIS_GRACE_PERIOD == 30000

(* Literals of SlowLorisProtection.ts *)
BASELINE_THRESHOLD == 20          \* Math.max(20, ...)
RAMP_WINDOW == 5000               \* Math.floor(timeSinceFirstConnection / 5000)
MIN_TIMEOUT_SAMPLE == 10          \* tracker.timeoutCount > 10
CONNECTION_EXPIRY == 600000       \* now - lastActivity > 600000
DOWNLOAD_EXPIRY == 1800000        \* now - lastActivity > 1800000
SAMPLE_INTERVAL == 1000           \* timeElapsed > 1000
MS_PER_SECOND == 1000             \* / 1000 in retryAfter and transferRate
FORCED_EXIT_DELAY == 5000         \* setTimeout(() => process.exit(1), 5000)

(* Bounds of the model *)
MaxAccepted == 4                  \* non-download requests accepted in one run of Spec
MaxDownloads == 2                 \* downloads accepted in one run of Spec
MaxInFlight == 2                  \* ... and how many of them may be in flight at once
MaxBurst == 102                   \* requests accepted in one run of SpecConnBurst
MaxDlBurst == 6                   \* downloads accepted in one run of a download burst
MaxMixed == 52                    \* requests and downloads accepted in one run of SpecMixed
MaxShutdown == 12                 \* requests accepted in one run of SpecShutdown
MaxSpawned == 4                   \* daemons spawned in one run of SpecDaemon
MaxLive == 3                      \* requests accepted in one run of SpecLive
MaxStats == 4                     \* requests a client of SpecStats sends
MaxStatsDownloads == 6            \* downloads a client of SpecStats starts
MaxWrites == 1                    \* Buffer chunks written in one run
MaxHandlerMs == 1                 \* ms between the two clock readings of a denial
TicksPerSecond == 8               \* ticks of the Throttle's clock in one second
MaxSeconds == 11                  \* seconds of a run of SpecThrottle
MaxArgs == 3                      \* tokens of an argument list of SpecCli
MaxHits == 201                    \* rate-limited requests of a client in one window

Clients == {"a"}

\* the clients of a run in which the statistics are read
StatsClients == {"a", "b"}

\* requests outside /snapshots/ go to the connection guard, GETs under it to the
\* download guard; a run of Init has traffic of one kind, a run of InitMixed
\* ("mixed") of both
Traffic == {"requests", "downloads"}

\* the instants at which events happen in a run of the connection guard
InstantsConn ==
    {0, CONNECTION_TIMEOUT, 2 * CONNECTION_TIMEOUT,
     2 * CONNECTION_TIMEOUT + SLOW_LORIS_BLOCK_DURATION - 1,
     2 * CONNECTION_TIMEOUT + SLOW_LORIS_BLOCK_DURATION}

\* ... of the download guard
InstantsDl ==
    {0, SAMPLE_INTERVAL + 1, MAX_DOWNLOAD_DURATION,
     MAX_DOWNLOAD_DURATION + DOWNLOAD_BLOCK_DURATION}

\* ... of a burst of requests around the end of the grace period
InstantsBurst == {0, SLOW_LORIS_GRACE_PERIOD, SLOW_LORIS_GRACE_PERIOD + 1}

\* ... of bursts of requests and downloads before and after the grace period
InstantsMixed == {0, SLOW_LORIS_GRACE_PERIOD + 1}

\* ... of bursts before and after the grace period and after the block, between
\* which the system clock may be set
InstantsClock ==
    {0, SLOW_LORIS_GRACE_PERIOD + 1,
     SLOW_LORIS_GRACE_PERIOD + 1 + SLOW_LORIS_BLOCK_DURATION}

\* ... of requests that time out around a shutdown
InstantsShutdown == {0, REQUEST_TIMEOUT, REQUEST_TIMEOUT + FORCED_EXIT_DELAY}

\* ... of requests that are left to their connection timeout
InstantsLive == {0, CONNECTION_TIMEOUT, 2 * CONNECTION_TIMEOUT}

\* ... at which the statistics are read: when every timeout of a request of
\* instant 0 has fired, and when the blocks made at that instant have lapsed
InstantsStats ==
    {CONNECTION_TIMEOUT, CONNECTION_TIMEOUT + DOWNLOAD_BLOCK_DURATION,
     CONNECTION_TIMEOUT + SLOW_LORIS_BLOCK_DURATION}

\* ... of the sampling of a download's transfer rate
InstantsSample == {0, SAMPLE_INTERVAL, SAMPLE_INTERVAL + 1, 2 * SAMPLE_INTERVAL + 2}

\* ... of downloads that complete after the block of their client has lapsed
InstantsLapse ==
    {0, MAX_DOWNLOAD_DURATION, MAX_DOWNLOAD_DURATION + DOWNLOAD_BLOCK_DURATION,
     MAX_DOWNLOAD_DURATION + DOWNLOAD_BLOCK_DURATION + 1}

\* A handler that accepts reads Date.now() as one value.  A handler that denies
\* reads it in isIpBlocked / isDownloadBlocked and again when it builds the
\* response; the second reading is the first or an instant at most MaxHandlerMs
\* later.
ClockReads(t) ==
    {t2 \in InstantsConn \cup InstantsDl \cup InstantsBurst :
        t <= t2 /\ t2 - t <= MaxHandlerMs}

Min(x, y) == IF x < y THEN x ELSE y
Max(x, y) == IF x > y THEN x ELSE y

\* Math.ceil(x / d) for integers x and d > 0 (\div rounds towards minus infinity)
Ceil(x, d) == -((-x) \div d)

\* map.set(ip, v)
MapSet(m, ip, v) == [i \in (DOMAIN m) \cup {ip} |-> IF i = ip THEN v ELSE m[i]]

EmptyMap == [i \in {} |-> 0]

\* one element of a bag replaced by another
BagReplace(B, old, new) == (B (-) SetToBag({old})) (+) SetToBag({new})

\* out: what the last handler did.  ev is "deny" (429 with retryAfter, next() not
\* called), "accept" (next() called; cleared tells whether the admit check cleared
\* a lapsed block), a timeout name (status 408 when the headers were unsent, 0
\* when nothing was sent; sent is res.headersSent as the handler found it; ended
\* tells whether res.end()/res.json() ended the response), "close" (again tells
\* whether 'finish' had run the unregister path before), "rateLimited", "invalid"
\* or "route" for a request of BackupServer (guard is the guard whose middleware
\* handled it, "" if none), "tick" (idle is the set of clients of which the reaper
\* removed an entry that was idle with no unit of work in progress) or "none" for
\* every other handler.
\* the counters getStats() starts from
NoStats == [totalConnections |-> 0, blockedIps |-> 0, activeIps |-> 0,
            totalDownloads |-> 0, blockedDownloadIps |-> 0, activeDownloadIps |-> 0,
            slowDownloads |-> 0]

\* daemon: pidFile is the pid that helios-backups.pid of the working directory
\* names (0: no file), alive the pids of the daemons that run, spawned the number
\* of daemons spawned so far (the n-th has pid n), termed and killed the pids to
\* which SIGTERM and SIGKILL were sent, timer the pid for which the 2000 ms timer
\* of stopDaemon is pending in the process of the command (0: none), cmd the
\* last command run, found what it found ("running", "stale" or "none") and
\* exit the code its process exited with.
NoDaemon == [pidFile |-> 0, alive |-> {}, spawned |-> 0, termed |-> {}, killed |-> {},
             timer |-> 0, cmd |-> "none", found |-> "none", exit |-> 0]

NoOut == [ev |-> "none", guard |-> "", ip |-> "", status |-> 0, retryAfter |-> 0,
          ended |-> FALSE, paced |-> FALSE, again |-> FALSE, cleared |-> FALSE,
          sent |-> FALSE, idle |-> {}, stats |-> NoStats, detail |-> FALSE]

----------------------------------------------------------------------------
(* Connection guard *)

\* isIpBlocked: the value returned
isIpBlocked(m, ip, t) ==
    /\ ip \in DOMAIN m
    /\ m[ip].isBlocked
    /\ t < m[ip].blockUntil

\* isIpBlocked: the map after the call (a lapsed block is cleared lazily)
isIpBlockedEffect(m, ip, t) ==
    IF ip \in DOMAIN m /\ m[ip].isBlocked /\ t >= m[ip].blockUntil
    THEN [m EXCEPT ![ip].isBlocked = FALSE, ![ip].blockUntil = 0]
    ELSE m

\* getBlockTime: tracker?.blockUntil || 0
getBlockTime(m, ip) == IF ip \in DOMAIN m THEN m[ip].blockUntil ELSE 0

\* retryAfter: Math.ceil((getBlockTime(ip) - Date.now()) / 1000)
retryAfter(blockTime, t) == Ceil(blockTime - t, MS_PER_SECOND)

NewConnectionTracker(t) ==
    [connections |-> 0, slowConnections |-> 0, lastActivity |-> t,
     isBlocked |-> FALSE, blockUntil |-> 0, firstConnection |-> t,
     requestCount |-> 0, timeoutCount |-> 0]

adaptiveThreshold(timeSinceFirstConnection) ==
    Min(MAX_CONCURRENT_CONNECTIONS,
        Max(BASELINE_THRESHOLD, timeSinceFirstConnection \div RAMP_WINDOW))

\* timeoutCount / Math.max(requestCount, 1) > num / den
timeoutRatioAbove(tr, num, den) ==
    tr.timeoutCount * den > num * Max(tr.requestCount, 1)

\* shouldBlock with the comparison against the adaptive threshold taken away
shouldBlockAnyCount(tr, t) ==
    /\ t - tr.firstConnection > SLOW_LORIS_GRACE_PERIOD
    /\ (timeoutRatioAbove(tr, 1, 2) \/ tr.connections > MAX_SLOW_CONNECTIONS)

\* shouldBlock with the grace period taken away
shouldBlockNoGrace(tr, t) ==
    /\ tr.connections > adaptiveThreshold(t - tr.firstConnection)
    /\ (timeoutRatioAbove(tr, 1, 2) \/ tr.connections > MAX_SLOW_CONNECTIONS)

shouldBlock(tr, t) ==
    /\ tr.connections > adaptiveThreshold(t - tr.firstConnection)
    /\ t - tr.firstConnection > SLOW_LORIS_GRACE_PERIOD
    /\ (timeoutRatioAbove(tr, 1, 2) \/ tr.connections > MAX_SLOW_CONNECTIONS)

\* addConnection that leaves requestCount as it is
addConnectionUncounted(m, ip, t) ==
    LET tr0 == IF ip \in DOMAIN m THEN m[ip] ELSE NewConnectionTracker(t)
        tr1 == [tr0 EXCEPT !.connections = @ + 1,
                           !.lastActivity = t]
        tr2 == IF shouldBlock(tr1, t)
               THEN [tr1 EXCEPT !.isBlocked = TRUE,
                                !.blockUntil = t + SLOW_LORIS_BLOCK_DURATION]
               ELSE tr1
    IN  MapSet(m, ip, tr2)

addConnection(m, ip, t) ==
    LET tr0 == IF ip \in DOMAIN m THEN m[ip] ELSE NewConnectionTracker(t)
        tr1 == [tr0 EXCEPT !.connections = @ + 1,
                           !.lastActivity = t,
                           !.requestCount = @ + 1]
        tr2 == IF shouldBlock(tr1, t)
               THEN [tr1 EXCEPT !.isBlocked = TRUE,
                                !.blockUntil = t + SLOW_LORIS_BLOCK_DURATION]
               ELSE tr1
    IN  MapSet(m, ip, tr2)

\* removeConnection that deletes the entry when its last connection is gone
removeConnectionDeleting(m, ip, t) ==
    IF ip \in DOMAIN m /\ m[ip].connections > 0
    THEN IF m[ip].connections = 1
         THEN [i \in (DOMAIN m) \ {ip} |-> m[i]]
         ELSE [m EXCEPT ![ip].connections = @ - 1, ![ip].lastActivity = t]
    ELSE m

\* removeConnection with the connections > 0 test taken away
removeConnectionUntested(m, ip, t) ==
    IF ip \in DOMAIN m
    THEN [m EXCEPT ![ip].connections = @ - 1, ![ip].lastActivity = t]
    ELSE m

removeConnection(m, ip, t) ==
    IF ip \in DOMAIN m /\ m[ip].connections > 0
    THEN [m EXCEPT ![ip].connections = @ - 1, ![ip].lastActivity = t]
    ELSE m

\* recordTimeout that blocks on the ratio alone, whatever the number of timeouts
recordTimeoutNoSample(m, ip, t) ==
    IF ip \in DOMAIN m
    THEN LET tr1 == [m[ip] EXCEPT !.timeoutCount = @ + 1,
                                  !.slowConnections = @ + 1]
             tr2 == IF timeoutRatioAbove(tr1, 7, 10)
                    THEN [tr1 EXCEPT !.isBlocked = TRUE,
                                     !.blockUntil = t + SLOW_LORIS_BLOCK_DURATION]
                    ELSE tr1
         IN  [m EXCEPT ![ip] = tr2]
    ELSE m

recordTimeout(m, ip, t) ==
    IF ip \in DOMAIN m
    THEN LET tr1 == [m[ip] EXCEPT !.timeoutCount = @ + 1,
                                  !.slowConnections = @ + 1]
             tr2 == IF timeoutRatioAbove(tr1, 7, 10) /\ tr1.timeoutCount > MIN_TIMEOUT_SAMPLE
                    THEN [tr1 EXCEPT !.isBlocked = TRUE,
                                     !.blockUntil = t + SLOW_LORIS_BLOCK_DURATION]
                    ELSE tr1
         IN  [m EXCEPT ![ip] = tr2]
    ELSE m

----------------------------------------------------------------------------
(* Requests of the connection guard.  st is "open" (response not ended),    *)
(* "ended" (a timeout handler called res.json() or res.end(); 'finish' not  *)
(* yet emitted), "finished" ('finish' emitted, 'close' not yet) or        *)
(* "answered" ('finish' emitted while the request body was still arriving, *)
(* as when a request is refused before its body is read).  hs is           *)
(* res.headersSent; reqT and resT tell which socket timeouts have fired.    *)
(* A request leaves the bag when 'close' fires.                             *)

NewConnReq(ip, t) ==
    [ip |-> ip, start |-> t, st |-> "open", hs |-> FALSE, reqT |-> FALSE, resT |-> FALSE]

\* a response that has ended: its timers no longer matter
SettledConn(r, st) ==
    [r EXCEPT !.st = st, !.hs = TRUE, !.start = 0, !.reqT = FALSE, !.resT = FALSE]

\* middleware(), non-download branch; max bounds the requests accepted in a run,
\* open those in flight at once
ConnRequest(ip, max, open) ==
    /\ IF isIpBlocked(connectionMap, ip, now)
       THEN /\ \E t2 \in ClockReads(now) :
                  /\ now' = t2
                  /\ out' = [NoOut EXCEPT
                                !.ev = "deny", !.guard = "conn", !.ip = ip,
                                !.status = 429, !.ended = TRUE,
                                !.retryAfter =
                                    retryAfter(getBlockTime(connectionMap, ip), t2)]
            /\ UNCHANGED <<connectionMap, connReqs, accepted, written, traffic, daemon, limiter, throttle, cli>>
       ELSE /\ traffic \in {"requests", "mixed"}
            /\ now' = now
            /\ accepted < max /\ BagCardinality(connReqs) < open
            /\ accepted' = accepted + 1
            /\ UNCHANGED <<written, traffic, daemon, limiter, throttle, cli>>
            /\ connectionMap' =
                   addConnection(isIpBlockedEffect(connectionMap, ip, now), ip, now)
            /\ connReqs' = connReqs (+) SetToBag({NewConnReq(ip, now)})
            /\ out' = [NoOut EXCEPT !.ev = "accept", !.guard = "conn", !.ip = ip,
                          !.cleared = (isIpBlockedEffect(connectionMap, ip, now)
                                           # connectionMap)]
    /\ UNCHANGED <<downloadMap, detached, dlReqs, cleanupInterval>>

\* the route handler sends the response headers and keeps the response open
ConnSendHeaders(r) ==
    /\ BagIn(r, connReqs)
    /\ r.st = "open" /\ ~r.hs
    /\ connReqs' = BagReplace(connReqs, r, [r EXCEPT !.hs = TRUE])
    /\ out' = NoOut
    /\ UNCHANGED <<now, connectionMap, downloadMap, detached, dlReqs,
                   cleanupInterval, accepted, written, traffic, daemon, limiter, throttle, cli>>

\* res.on('finish'): the whole response has been handed to the socket
ConnFinish(r) ==
    /\ BagIn(r, connReqs)
    /\ r.st \in {"open", "ended"}
    /\ connectionMap' = removeConnection(connectionMap, r.ip, now)
    /\ connReqs' = BagReplace(connReqs, r, SettledConn(r, "finished"))
    /\ out' = NoOut
    /\ UNCHANGED <<now, downloadMap, detached, dlReqs, cleanupInterval, accepted, written, traffic, daemon, limiter, throttle, cli>>

\* res.on('close'): the connection is gone, after 'finish' or instead of it
ConnClose(r) ==
    /\ BagIn(r, connReqs)
    /\ connectionMap' = removeConnection(connectionMap, r.ip, now)
    /\ connReqs' = connReqs (-) SetToBag({r})
    /\ out' = [NoOut EXCEPT !.ev = "close", !.guard = "conn", !.ip = r.ip,
                            !.again = (r.st \in {"finished", "answered"})]
    /\ UNCHANGED <<now, downloadMap, detached, dlReqs, cleanupInterval, accepted, written, traffic, daemon, limiter, throttle, cli>>

\* a timeout callback of setupConnectionTimeouts: recordTimeout, then 408 if the
\* headers are unsent; alsoEnd is the res.end() of the connection timeout
ConnTimeoutFires(r, r2, ev, alsoEnd) ==
    /\ connectionMap' = recordTimeout(connectionMap, r.ip, now)
    /\ connReqs' = BagReplace(connReqs, r,
                      IF r.hs /\ ~alsoEnd THEN r2 ELSE SettledConn(r, "ended"))
    /\ out' = [NoOut EXCEPT !.ev = ev, !.guard = "conn", !.ip = r.ip,
                            !.status = IF r.hs THEN 0 ELSE 408,
                            !.sent = r.hs,
                            !.ended = ~r.hs \/ alsoEnd]
    /\ UNCHANGED <<now, downloadMap, detached, dlReqs, cleanupInterval, accepted, written, traffic, daemon, limiter, throttle, cli>>

\* req.setTimeout(REQUEST_TIMEOUT, ...)
ConnRequestTimeout(r) ==
    /\ BagIn(r, connReqs)
    /\ r.st = "open" /\ ~r.reqT
    /\ now - r.start >= REQUEST_TIMEOUT
    /\ ConnTimeoutFires(r, [r EXCEPT !.reqT = TRUE], "requestTimeout", FALSE)

\* res.setTimeout(RESPONSE_TIMEOUT, ...)
ConnResponseTimeout(r) ==
    /\ BagIn(r, connReqs)
    /\ r.st = "open" /\ ~r.resT
    /\ now - r.start >= RESPONSE_TIMEOUT
    /\ ConnTimeoutFires(r, [r EXCEPT !.resT = TRUE], "responseTimeout", FALSE)

\* the connection timeout that records the timeout and leaves the response open
ConnConnectionTimeoutNoEnd(r) ==
    /\ BagIn(r, connReqs)
    /\ r.st = "open" /\ (~r.reqT \/ ~r.resT)
    /\ now - r.start >= CONNECTION_TIMEOUT
    /\ ConnTimeoutFires(r, [r EXCEPT !.reqT = TRUE, !.resT = TRUE], "connectionTimeout", FALSE)

\* setTimeout(..., CONNECTION_TIMEOUT), cleared by 'finish' and 'close'
ConnConnectionTimeout(r) ==
    /\ BagIn(r, connReqs)
    /\ r.st = "open"
    /\ now - r.start >= CONNECTION_TIMEOUT
    /\ ConnTimeoutFires(r, r, "connectionTimeout", TRUE)

\* res.on('finish') of a response that is sent before the request body has
\* arrived in full: the unregister path and clearTimeout(connectionTimeout) run;
\* the listener of req.setTimeout stays on the request
ConnFinishEarly(r) ==
    /\ BagIn(r, connReqs)
    /\ r.st \in {"open", "ended"}
    /\ connectionMap' = removeConnection(connectionMap, r.ip, now)
    /\ connReqs' = BagReplace(connReqs, r,
                      [r EXCEPT !.st = "answered", !.hs = TRUE, !.resT = FALSE])
    /\ out' = NoOut
    /\ UNCHANGED <<now, downloadMap, detached, dlReqs, cleanupInterval, accepted, written, traffic, daemon, limiter, throttle, cli>>

\* the callback of req.setTimeout(REQUEST_TIMEOUT, ...), which no handler
\* removes, on a request whose response has finished: the connection is still
\* open and the request still incomplete
ConnLateRequestTimeout(r) ==
    /\ BagIn(r, connReqs)
    /\ r.st = "answered" /\ ~r.reqT
    /\ now - r.start >= REQUEST_TIMEOUT
    /\ ConnTimeoutFires(r, [r EXCEPT !.reqT = TRUE], "requestTimeout", FALSE)

----------------------------------------------------------------------------
(* Download guard *)

\* isDownloadBlocked without the comparison with the clock
isDownloadBlockedNoExpiry(m, ip, t) ==
    /\ ip \in DOMAIN m
    /\ m[ip].isBlocked

\* isDownloadBlocked that holds only while the client is above the cap
isDownloadBlockedAboveCap(m, ip, t) ==
    /\ ip \in DOMAIN m
    /\ m[ip].isBlocked
    /\ t < m[ip].blockUntil
    /\ m[ip].activeDownloads > MAX_SLOW_DOWNLOADS

\* isDownloadBlocked that also denies a client the connection guard has blocked
isDownloadBlockedEitherList(m, ip, t) ==
    \/ /\ ip \in DOMAIN m
       /\ m[ip].isBlocked
       /\ t < m[ip].blockUntil
    \/ /\ ip \in DOMAIN connectionMap
       /\ connectionMap[ip].isBlocked
       /\ t < connectionMap[ip].blockUntil

\* isDownloadBlocked: the value returned
isDownloadBlocked(m, ip, t) ==
    /\ ip \in DOMAIN m
    /\ m[ip].isBlocked
    /\ t < m[ip].blockUntil

isDownloadBlockedEffect(m, ip, t) ==
    IF ip \in DOMAIN m /\ m[ip].isBlocked /\ t >= m[ip].blockUntil
    THEN [m EXCEPT ![ip].isBlocked = FALSE, ![ip].blockUntil = 0]
    ELSE m

getDownloadBlockTime(m, ip) == IF ip \in DOMAIN m THEN m[ip].blockUntil ELSE 0

\* id names the object: the closures of setupDownloadMonitoring keep the tracker
\* object itself, whatever downloadMap holds for the ip later on.
\* totalBytesTransferred and downloadStartTime, which no decision reads, are left out
NewDownloadTracker(t, id) ==
    [id |-> id, activeDownloads |-> 0, slowDownloads |-> 0,
     lastActivity |-> t, isBlocked |-> FALSE, blockUntil |-> 0,
     lastTransferTime |-> t, transferRate |-> 0]

\* addDownload that blocks as soon as activeDownloads reaches the cap
addDownloadAtCap(m, ip, t, id) ==
    LET tr0 == IF ip \in DOMAIN m THEN m[ip] ELSE NewDownloadTracker(t, id)
        tr1 == [tr0 EXCEPT !.activeDownloads = @ + 1,
                           !.lastActivity = t,
                           !.lastTransferTime = t]
        tr2 == IF tr1.activeDownloads >= MAX_SLOW_DOWNLOADS
               THEN [tr1 EXCEPT !.isBlocked = TRUE,
                                !.blockUntil = t + DOWNLOAD_BLOCK_DURATION]
               ELSE tr1
    IN  MapSet(m, ip, tr2)

addDownload(m, ip, t, id) ==
    LET tr0 == IF ip \in DOMAIN m THEN m[ip] ELSE NewDownloadTracker(t, id)
        tr1 == [tr0 EXCEPT !.activeDownloads = @ + 1,
                           !.lastActivity = t,
                           !.lastTransferTime = t]
        tr2 == IF tr1.activeDownloads > MAX_SLOW_DOWNLOADS
               THEN [tr1 EXCEPT !.isBlocked = TRUE,
                                !.blockUntil = t + DOWNLOAD_BLOCK_DURATION]
               ELSE tr1
    IN  MapSet(m, ip, tr2)

removeDownload(m, ip, t) ==
    IF ip \in DOMAIN m /\ m[ip].activeDownloads > 0
    THEN [m EXCEPT ![ip].activeDownloads = @ - 1, ![ip].lastActivity = t]
    ELSE m

\* bytesTransferred / ((now - startTime) / 1000), rounded down: every comparison
\* the code makes is with an integer, which rounding down preserves
transferRate(bytes, elapsed) == (bytes * MS_PER_SECOND) \div elapsed

\* sampleTransfer that blocks the tracker as soon as a sample is slow
sampleTransferBlocking(tr, bytes, start, t) ==
    IF t - tr.lastTransferTime > SAMPLE_INTERVAL
    THEN LET rate == transferRate(bytes, t - start)
         IN  [tr EXCEPT !.transferRate = rate,
                        !.lastTransferTime = t,
                        !.slowDownloads =
                            IF rate < SLOW_DOWNLOAD_THRESHOLD THEN @ + 1 ELSE @,
                        !.isBlocked = @ \/ rate < SLOW_DOWNLOAD_THRESHOLD,
                        !.blockUntil =
                            IF rate < SLOW_DOWNLOAD_THRESHOLD
                            THEN t + DOWNLOAD_BLOCK_DURATION ELSE @]
    ELSE tr

\* the accounting of the patched res.write on the captured tracker
sampleTransfer(tr, bytes, start, t) ==
    IF t - tr.lastTransferTime > SAMPLE_INTERVAL
    THEN LET rate == transferRate(bytes, t - start)
         IN  [tr EXCEPT !.transferRate = rate,
                        !.lastTransferTime = t,
                        !.slowDownloads =
                            IF rate < SLOW_DOWNLOAD_THRESHOLD THEN @ + 1 ELSE @]
    ELSE tr

\* the verdict of the downloadTimeout callback on the captured tracker
tooSlow(tr) == tr.transferRate < MIN_TRANSFER_RATE

\* blockDownload that sets blockUntil and leaves isBlocked as it was
blockDownloadNoFlag(tr, t) ==
    [tr EXCEPT !.blockUntil = t + DOWNLOAD_BLOCK_DURATION]

\* the downloadTimeout callback blocks the captured tracker
blockDownload(tr, t) ==
    [tr EXCEPT !.isBlocked = TRUE, !.blockUntil = t + DOWNLOAD_BLOCK_DURATION]

----------------------------------------------------------------------------
(* Downloads.  st and hs as for the connection guard; bytes is the closure's *)
(* bytesTransferred, wd tells whether                                        *)
(* the downloadTimeout has fired, tid is the id of the captured tracker.     *)
(* paced records that after every write so far the bytes sent did not exceed *)
(* 64 bytes per second of the download's age.                                *)

NewDlReq(ip, t, id) ==
    [ip |-> ip, start |-> t, st |-> "open", hs |-> FALSE, bytes |-> 0,
     wd |-> FALSE, tid |-> id, paced |-> TRUE]

SettledDl(r, st) ==
    [r EXCEPT !.st = st, !.hs = TRUE, !.start = 0, !.bytes = 0,
              !.wd = FALSE, !.tid = 0, !.paced = TRUE]

ChunkSizes == {64, 65536}

\* the tracker object a download's closures hold
Attached(r) == r.ip \in DOMAIN downloadMap /\ downloadMap[r.ip].id = r.tid
trackerOf(r) == IF Attached(r) THEN downloadMap[r.ip] ELSE detached[r.tid]

\* ids of the trackers some open download still holds
Captured(reqs) == {r.tid : r \in {q \in BagToSet(reqs) : q.st = "open"}}

\* a name for a tracker object created now
FreshId(reqs) == CHOOSE i \in 1..(Cardinality(Captured(reqs)) + 1) : i \notin Captured(reqs)

\* the trackers of `gone` (ip -> tracker) that stay reachable from a closure
Detach(det, gone, reqs) ==
    LET keep == {i \in DOMAIN gone : gone[i].id \in Captured(reqs)}
        ids  == (DOMAIN det \cup {gone[i].id : i \in keep}) \cap Captured(reqs)
    IN  [d \in ids |-> IF d \in DOMAIN det THEN det[d]
                       ELSE gone[CHOOSE i \in keep : gone[i].id = d]]

\* the captured tracker of r becomes tr, r becomes r2 in the bag
StoreTracker(r, tr, r2) ==
    /\ dlReqs' = BagReplace(dlReqs, r, r2)
    /\ IF Attached(r)
       THEN /\ downloadMap' = [downloadMap EXCEPT ![r.ip] = tr]
            /\ detached' = Detach(detached, EmptyMap, dlReqs')
       ELSE /\ downloadMap' = downloadMap
            /\ detached' = Detach([detached EXCEPT ![r.tid] = tr], EmptyMap, dlReqs')

\* handleDownloadProtection()
DownloadRequest(ip, max, open) ==
    /\ IF isDownloadBlocked(downloadMap, ip, now)
       THEN /\ \E t2 \in ClockReads(now) :
                  /\ now' = t2
                  /\ out' = [NoOut EXCEPT
                                !.ev = "deny", !.guard = "dl", !.ip = ip,
                                !.status = 429, !.ended = TRUE,
                                !.retryAfter =
                                    retryAfter(getDownloadBlockTime(downloadMap, ip), t2)]
            /\ UNCHANGED <<downloadMap, dlReqs, accepted, written, traffic, daemon, limiter, throttle, cli>>
       ELSE /\ traffic \in {"downloads", "mixed"}
            /\ now' = now
            /\ accepted < max /\ BagCardinality(dlReqs) < open
            /\ accepted' = accepted + 1
            /\ UNCHANGED <<written, traffic, daemon, limiter, throttle, cli>>
            /\ downloadMap' =
                   addDownload(isDownloadBlockedEffect(downloadMap, ip, now), ip, now,
                               FreshId(dlReqs))
            /\ dlReqs' = dlReqs (+) SetToBag({NewDlReq(ip, now, downloadMap'[ip].id)})
            /\ out' = [NoOut EXCEPT !.ev = "accept", !.guard = "dl", !.ip = ip,
                          !.cleared = (isDownloadBlockedEffect(downloadMap, ip, now)
                                           # downloadMap)]
    /\ UNCHANGED <<connectionMap, detached, connReqs, cleanupInterval>>

\* the patched res.write, called with a Buffer of n bytes
DlWrite(r, n) ==
    /\ BagIn(r, dlReqs)
    /\ r.st = "open" /\ written < MaxWrites
    /\ written' = written + 1
    /\ LET bytes == r.bytes + n
       IN  StoreTracker(r, sampleTransfer(trackerOf(r), bytes, r.start, now),
                        [r EXCEPT !.bytes = bytes, !.hs = TRUE,
                                  !.paced = @ /\ bytes * MS_PER_SECOND <= 64 * (now - r.start)])
    /\ out' = NoOut
    /\ UNCHANGED <<now, connectionMap, connReqs, cleanupInterval, accepted, traffic, daemon, limiter, throttle, cli>>

\* the downloadTimeout callback, cleared by 'finish' and 'close'
DlWatchdog(r) ==
    /\ BagIn(r, dlReqs)
    /\ r.st = "open" /\ ~r.wd
    /\ now - r.start >= MAX_DOWNLOAD_DURATION
    /\ IF tooSlow(trackerOf(r))
       THEN /\ StoreTracker(r, blockDownload(trackerOf(r), now), SettledDl(r, "ended"))
            /\ out' = [NoOut EXCEPT !.ev = "downloadTimeout", !.guard = "dl", !.ip = r.ip,
                                    !.status = IF r.hs THEN 0 ELSE 408, !.ended = TRUE,
                                    !.sent = r.hs, !.paced = r.paced]
       ELSE /\ StoreTracker(r, trackerOf(r), [r EXCEPT !.wd = TRUE])
            /\ out' = [NoOut EXCEPT !.ev = "downloadTimeout", !.guard = "dl", !.ip = r.ip,
                                    !.sent = r.hs, !.paced = r.paced]
    /\ UNCHANGED <<now, connectionMap, connReqs, cleanupInterval, accepted, written, traffic, daemon, limiter, throttle, cli>>

DlFinish(r) ==
    /\ BagIn(r, dlReqs)
    /\ r.st \in {"open", "ended"}
    /\ downloadMap' = removeDownload(downloadMap, r.ip, now)
    /\ dlReqs' = BagReplace(dlReqs, r, SettledDl(r, "finished"))
    /\ detached' = Detach(detached, EmptyMap, dlReqs')
    /\ out' = NoOut
    /\ UNCHANGED <<now, connectionMap, connReqs, cleanupInterval, accepted, written, traffic, daemon, limiter, throttle, cli>>

DlClose(r) ==
    /\ BagIn(r, dlReqs)
    /\ downloadMap' = removeDownload(downloadMap, r.ip, now)
    /\ dlReqs' = dlReqs (-) SetToBag({r})
    /\ detached' = Detach(detached, EmptyMap, dlReqs')
    /\ out' = [NoOut EXCEPT !.ev = "close", !.guard = "dl", !.ip = r.ip,
                            !.again = (r.st = "finished")]
    /\ UNCHANGED <<now, connectionMap, connReqs, cleanupInterval, accepted, written, traffic, daemon, limiter, throttle, cli>>

\* the patched res.end, called when the file stream has been piped through
DlEnd(r) ==
    /\ BagIn(r, dlReqs)
    /\ r.st = "open"
    /\ StoreTracker(r, trackerOf(r), SettledDl(r, "ended"))
    /\ out' = NoOut
    /\ UNCHANGED <<now, connectionMap, connReqs, cleanupInterval, accepted, written, traffic, daemon, limiter, throttle, cli>>

----------------------------------------------------------------------------
(* Reaper, teardown, clock *)

\* isExpired of the connection loop
connectionIdle(tr, t) == t - tr.lastActivity > CONNECTION_EXPIRY /\ tr.connections = 0

\* isExpired of the download loop
downloadIdle(tr, t) == t - tr.lastActivity > DOWNLOAD_EXPIRY /\ tr.activeDownloads = 0

\* connectionExpired with the inactivity window of the download loop
connectionExpiredLongWindow(tr, t) ==
    \/ t - tr.lastActivity > DOWNLOAD_EXPIRY /\ tr.connections = 0
    \/ tr.isBlocked /\ t >= tr.blockUntil

\* isExpired || isBlockExpired
connectionExpired(tr, t) ==
    \/ connectionIdle(tr, t)
    \/ tr.isBlocked /\ t >= tr.blockUntil

downloadExpired(tr, t) ==
    \/ downloadIdle(tr, t)
    \/ tr.isBlocked /\ t >= tr.blockUntil

\* m without the entries of ips
MapWithout(m, ips) == [i \in (DOMAIN m) \ ips |-> m[i]]

\* m restricted to the entries of ips
MapOnly(m, ips) == [i \in (DOMAIN m) \cap ips |-> m[i]]

expiredIps(m, t) == {ip \in DOMAIN m : connectionExpired(m[ip], t)}

expiredDownloadIps(m, t) == {ip \in DOMAIN m : downloadExpired(m[ip], t)}

\* cleanupExpiredConnections(), run by the setInterval of the static initializer
cleanupExpiredConnections ==
    /\ cleanupInterval
    /\ connectionMap' = MapWithout(connectionMap, expiredIps(connectionMap, now))
    /\ downloadMap' = MapWithout(downloadMap, expiredDownloadIps(downloadMap, now))
    /\ detached' = Detach(detached,
                          MapOnly(downloadMap, expiredDownloadIps(downloadMap, now)),
                          dlReqs)
    /\ out' = [NoOut EXCEPT
                  !.ev = "tick",
                  !.idle = {ip \in expiredIps(connectionMap, now) :
                               connectionIdle(connectionMap[ip], now)}
                           \cup {ip \in expiredDownloadIps(downloadMap, now) :
                                    downloadIdle(downloadMap[ip], now)}]
    /\ UNCHANGED <<now, connReqs, dlReqs, cleanupInterval, accepted, written, traffic, daemon, limiter, throttle, cli>>

\* destroy() that clears the connection map only
destroyConnectionsOnly ==
    /\ cleanupInterval
    /\ cleanupInterval' = FALSE
    /\ connectionMap' = EmptyMap
    /\ UNCHANGED <<downloadMap, detached>>
    /\ out' = NoOut
    /\ UNCHANGED <<now, connReqs, dlReqs, accepted, written, traffic, daemon, limiter, throttle, cli>>

\* destroy(), called by gracefulShutdown
destroy ==
    /\ cleanupInterval
    /\ cleanupInterval' = FALSE
    /\ connectionMap' = EmptyMap
    /\ downloadMap' = EmptyMap
    /\ detached' = Detach(detached, downloadMap, dlReqs)
    /\ out' = NoOut
    /\ UNCHANGED <<now, connReqs, dlReqs, accepted, written, traffic, daemon, limiter, throttle, cli>>

\* the test of both loops of getStats: the flag is set and the block has not lapsed
blockedFlag(tr, t) == tr.isBlocked

blockedNow(tr, t) == tr.isBlocked /\ t < tr.blockUntil

\* for (const tracker of this.connectionMap.values())
RECURSIVE connectionStats(_, _, _, _)
connectionStats(m, ips, t, acc) ==
    IF ips = {} THEN acc
    ELSE LET ip == CHOOSE i \in ips : TRUE
             tracker == m[ip]
         IN  connectionStats(m, ips \ {ip}, t,
                 [acc EXCEPT
                     !.totalConnections = @ + tracker.connections,
                     !.blockedIps = @ + (IF blockedNow(tracker, t) THEN 1 ELSE 0),
                     !.activeIps = @ + (IF tracker.connections > 0 THEN 1 ELSE 0)])

\* for (const tracker of this.downloadMap.values())
RECURSIVE downloadStats(_, _, _, _)
downloadStats(m, ips, t, acc) ==
    IF ips = {} THEN acc
    ELSE LET ip == CHOOSE i \in ips : TRUE
             tracker == m[ip]
         IN  downloadStats(m, ips \ {ip}, t,
                 [acc EXCEPT
                     !.totalDownloads = @ + tracker.activeDownloads,
                     !.slowDownloads = @ + tracker.slowDownloads,
                     !.blockedDownloadIps = @ + (IF blockedNow(tracker, t) THEN 1 ELSE 0),
                     !.activeDownloadIps = @ + (IF tracker.activeDownloads > 0 THEN 1 ELSE 0)])

\* getStats(): both loops run in one synchronous call, their readings of Date.now()
\* are one instant
getStats(cm, dm, t) ==
    downloadStats(dm, DOMAIN dm, t, connectionStats(cm, DOMAIN cm, t, NoStats))

\* a caller takes the snapshot
GetStats ==
    /\ out' = [NoOut EXCEPT !.ev = "stats", !.stats = getStats(connectionMap, downloadMap, now)]
    /\ UNCHANGED <<now, connectionMap, downloadMap, detached, connReqs, dlReqs,
                   cleanupInterval, accepted, written, traffic, daemon, limiter, throttle, cli>>

\* the clock moves forward to a later instant
\* gracefulShutdown exits the process FORCED_EXIT_DELAY after destroy at the latest
Advance(instants) ==
    /\ \E t \in instants :
          /\ t > now
          /\ cleanupInterval \/ t - now <= FORCED_EXIT_DELAY
          /\ now' = t
    /\ out' = NoOut
    /\ UNCHANGED <<connectionMap, downloadMap, detached, connReqs, dlReqs,
                   cleanupInterval, accepted, written, traffic, daemon, limiter, throttle, cli>>

\* the system clock is set (by an operator or by a time service) to another
\* instant, forward or backward: Date.now() follows it, no time has passed
ClockAdjust(instants) ==
    /\ \E t \in instants :
          /\ t # now
          /\ now' = t
    /\ out' = [NoOut EXCEPT !.ev = "adjust"]
    /\ UNCHANGED <<connectionMap, downloadMap, detached, connReqs, dlReqs,
                   cleanupInterval, accepted, written, traffic, daemon, limiter, throttle, cli>>

----------------------------------------------------------------------------
(* DaemonManager and the commands of the CLI that use it.  The commands run    *)
(* in one working directory, as the user that owns the daemon:                *)
(* process.kill(pid, 0) throws (ESRCH) exactly when no process has that pid.  *)

\* fs.existsSync(pidFile), then process.kill(parseInt(pid), 0)
pidFileNames(d) ==
    IF d.pidFile = 0 THEN "none"
    ELSE IF d.pidFile \in d.alive THEN "running" ELSE "stale"

\* spawn(process.argv[0], [daemonPath], {detached: true, ...}) and
\* fs.writeFileSync(pidFile, child.pid.toString())
spawnDaemon(d) ==
    [d EXCEPT !.spawned = @ + 1, !.alive = @ \cup {d.spawned + 1},
              !.pidFile = d.spawned + 1]

\* runDaemon that spawns whatever the PID file names
runDaemonUnchecked(d) ==
    [spawnDaemon(d) EXCEPT !.cmd = "serve", !.found = pidFileNames(d), !.exit = 0]

\* DaemonManager.runDaemon: exit(1) if the PID file names a running process;
\* otherwise the stale file is removed, the daemon spawned, its pid written
runDaemon(d) ==
    IF pidFileNames(d) = "running"
    THEN [d EXCEPT !.cmd = "serve", !.found = "running", !.exit = 1]
    ELSE [spawnDaemon(d) EXCEPT !.cmd = "serve", !.found = pidFileNames(d), !.exit = 0]

\* DaemonManager.stopDaemon up to its return: a stale file is removed; a running
\* daemon is sent SIGTERM and the 2000 ms timer is armed
stopDaemonCall(d) ==
    IF pidFileNames(d) = "none" THEN d
    ELSE IF pidFileNames(d) = "stale" THEN [d EXCEPT !.pidFile = 0]
    ELSE [d EXCEPT !.termed = @ \cup {d.pidFile}, !.timer = d.pidFile]

\* process.exit(code): the timers of the process die with it
processExit(d, code) == [d EXCEPT !.timer = 0, !.exit = code]

\* `serve -d`: CLI.runServer with isDaemon
runServer ==
    /\ daemon.spawned < MaxSpawned
    /\ daemon' = runDaemon(daemon)
    /\ out' = NoOut
    /\ UNCHANGED <<now, connectionMap, downloadMap, detached, connReqs, dlReqs,
                   cleanupInterval, accepted, written, traffic, limiter, throttle, cli>>

\* `stop`: CLI.stopDaemon, which is DaemonManager.stopDaemon() followed by
\* process.exit(0)
stopDaemon ==
    /\ daemon' = processExit([stopDaemonCall(daemon) EXCEPT
                                  !.cmd = "stop", !.found = pidFileNames(daemon)], 0)
    /\ out' = NoOut
    /\ UNCHANGED <<now, connectionMap, downloadMap, detached, connReqs, dlReqs,
                   cleanupInterval, accepted, written, traffic, limiter, throttle, cli>>

\* `status`: CLI.showStatus removes a stale PID file
showStatus ==
    /\ daemon' = [daemon EXCEPT
                      !.pidFile = IF pidFileNames(daemon) = "stale" THEN 0 ELSE @,
                      !.cmd = "status", !.found = pidFileNames(daemon), !.exit = 0]
    /\ out' = NoOut
    /\ UNCHANGED <<now, connectionMap, downloadMap, detached, connReqs, dlReqs,
                   cleanupInterval, accepted, written, traffic, limiter, throttle, cli>>

\* a daemon exits: gracefulShutdown after SIGTERM, or a failure at any time
DaemonExits(pid) ==
    /\ pid \in daemon.alive
    /\ daemon' = [daemon EXCEPT !.alive = @ \ {pid}, !.cmd = "none", !.found = "none"]
    /\ out' = NoOut
    /\ UNCHANGED <<now, connectionMap, downloadMap, detached, connReqs, dlReqs,
                   cleanupInterval, accepted, written, traffic, limiter, throttle, cli>>

----------------------------------------------------------------------------
(* BackupServer: the middleware chain of setupMiddleware and the routes.     *)
(* The store of the rateLimit middleware keeps, for every key, the hits of   *)
(* the current window and the instant at which the window ends.              *)

RATE_LIMIT_WINDOW == 60000        \* RATE_LIMIT.windowMs: 60 * 1000
RATE_LIMIT_MAX == 200             \* RATE_LIMIT.max
RATE_LIMIT_RETRY_AFTER == 60      \* Math.ceil(60 / 1000) in RATE_LIMIT.handler
README_RATE_LIMIT == 20           \* README: 20 requests per minute per IP

\* the app.use() calls of setupMiddleware that are executed, in order; the call
\* app.use(SlowLorisProtection.middleware()) is commented out in the source
setupMiddleware ==
    <<"helmet", "morgan", "rateLimit", "json", "urlencoded", "isRequestValid">>

Paths == {"/health", "/snapshots", "/snapshots/f.gz"}
Methods == {"GET", "POST"}

\* req.path.startsWith('/snapshots/')
startsWithSnapshots(path) == path \in {"/snapshots/f.gz"}

\* RATE_LIMIT.skip
skip(path, method) == startsWithSnapshots(path) /\ method = "GET"

NoHits == [totalHits |-> 0, resetTime |-> 0]

\* the store's increment for the key req.ip
increment(store, ip, t) ==
    IF store[ip].totalHits = 0 \/ t >= store[ip].resetTime
    THEN [store EXCEPT ![ip] = [totalHits |-> 1, resetTime |-> t + RATE_LIMIT_WINDOW]]
    ELSE [store EXCEPT ![ip].totalHits = @ + 1]

\* the middleware of setupMiddleware that handles the request of a client, if any,
\* and the route otherwise; userAgent tells whether the User-Agent header is set
\* (SecurityValidator.isRequestValid)
ServerRequest(ip, path, method, userAgent) ==
    LET limited == \E i \in DOMAIN setupMiddleware :
                       setupMiddleware[i] = "rateLimit" /\ ~skip(path, method)
        store == IF limited THEN increment(limiter, ip, now) ELSE limiter
        guard == IF \E i \in DOMAIN setupMiddleware :
                        setupMiddleware[i] = "SlowLorisProtection"
                 THEN IF startsWithSnapshots(path) /\ method = "GET"
                      THEN "dl" ELSE "conn"
                 ELSE ""
    IN  /\ cleanupInterval
        /\ limited => limiter[ip].totalHits < MaxHits
        /\ limiter' = store
        /\ out' = IF limited /\ store[ip].totalHits > RATE_LIMIT_MAX
                  THEN [NoOut EXCEPT !.ev = "rateLimited", !.ip = ip, !.guard = guard,
                                     !.status = 429, !.ended = TRUE,
                                     !.retryAfter = Ceil(RATE_LIMIT_RETRY_AFTER,
                                                         MS_PER_SECOND)]
                  ELSE IF ~userAgent
                  THEN [NoOut EXCEPT !.ev = "invalid", !.ip = ip, !.guard = guard,
                                     !.status = 400, !.ended = TRUE]
                  ELSE [NoOut EXCEPT !.ev = "route", !.ip = ip, !.guard = guard,
                                     !.status = 200]
        /\ UNCHANGED <<now, connectionMap, downloadMap, detached, connReqs, dlReqs,
                       cleanupInterval, accepted, written, traffic, daemon, throttle, cli>>

\* process.env.NODE_ENV as the process was started: the daemon is spawned with
\* 'production', `serve` in the foreground inherits the caller's environment
Environments == {"production", "development", ""}

\* the last app.use of setupRoutes: error is 'Internal server error' in production
\* and err.message otherwise; detail tells whether the body carries err.message
errorHandler(env) ==
    [NoOut EXCEPT !.ev = "error", !.status = 500, !.ended = TRUE,
                  !.detail = (env # "production")]

\* the catch of a route: error is 'Internal server error'
routeCatch == [NoOut EXCEPT !.ev = "error", !.status = 500, !.ended = TRUE]

\* A request during which an error is raised.  thrownBy is "json" when the body of
\* a POST is not the JSON its Content-Type announces (express.json passes the
\* error of the parser to next()), "route" when a call of the handler of one of
\* the /snapshots routes throws (fs.statSync on a file removed meanwhile).
ServerFailure(ip, path, method, userAgent, thrownBy, env) ==
    LET limited == \E i \in DOMAIN setupMiddleware :
                       setupMiddleware[i] = "rateLimit" /\ ~skip(path, method)
        store == IF limited THEN increment(limiter, ip, now) ELSE limiter
    IN  /\ cleanupInterval
        /\ thrownBy = "json" => method = "POST"
        /\ thrownBy = "route" => method = "GET" /\ path # "/health"
        /\ limited => limiter[ip].totalHits < MaxHits
        /\ limiter' = store
        /\ out' = IF limited /\ store[ip].totalHits > RATE_LIMIT_MAX
                  THEN [NoOut EXCEPT !.ev = "rateLimited", !.ip = ip,
                                     !.status = 429, !.ended = TRUE,
                                     !.retryAfter = Ceil(RATE_LIMIT_RETRY_AFTER,
                                                         MS_PER_SECOND)]
                  ELSE IF thrownBy = "json"
                  THEN [errorHandler(env) EXCEPT !.ip = ip]
                  ELSE IF ~userAgent
                  THEN [NoOut EXCEPT !.ev = "invalid", !.ip = ip,
                                     !.status = 400, !.ended = TRUE]
                  ELSE [routeCatch EXCEPT !.ip = ip]
        /\ UNCHANGED <<now, connectionMap, downloadMap, detached, connReqs, dlReqs,
                       cleanupInterval, accepted, written, traffic, daemon, throttle, cli>>

\* the instants of a run of the server around the end of a rate-limit window
InstantsServer == {0, RATE_LIMIT_WINDOW - 1, RATE_LIMIT_WINDOW}

----------------------------------------------------------------------------
(* The Throttle through which the download route pipes the file.  The class  *)
(* comes from the package stream-throttle, of which the repository holds the *)
(* declaration only; the bucket follows the ThrottledStream of the           *)
(* specification: tokens accumulate at `rate` per second up to a burst       *)
(* capacity, and a write of n bytes consumes n tokens and waits until the    *)
(* bucket holds them.  Time advances in ticks of 1 / TicksPerSecond seconds. *)

THROTTLE_RATE == 1048576          \* maxDownloadRate: 1024 * 1024
FILE_SIZE == 10485760             \* the download of the claim: 10 * 1024 * 1024 bytes
READ_CHUNK == 65536               \* a chunk of fs.createReadStream

\* the tokens that accumulate in one tick
tokensPerTick == THROTTLE_RATE \div TicksPerSecond

\* the burst capacities of a run: the tokens of one tick, or of one second
BurstCapacities == {tokensPerTick, THROTTLE_RATE}

\* a bucket of the given capacity that starts with the given tokens
NewThrottle(capacity, tokens) ==
    [capacity |-> capacity, initial |-> tokens, tokens |-> tokens,
     passed |-> 0, elapsed |-> 0]

\* no download is streaming
NoThrottle == NewThrottle(0, 0)

\* the bucket after a tick
accumulate(th) ==
    [th EXCEPT !.tokens = Min(th.capacity, @ + tokensPerTick), !.elapsed = @ + 1]

\* take that leaves the tokens in the bucket
takeNothing(th, n) == [th EXCEPT !.passed = @ + n]

\* the bucket after n bytes have passed
take(th, n) == [th EXCEPT !.tokens = @ - n, !.passed = @ + n]

ThrottleTick ==
    /\ throttle.capacity > 0
    /\ throttle.elapsed < MaxSeconds * TicksPerSecond
    /\ throttle' = accumulate(throttle)
    /\ UNCHANGED <<now, connectionMap, downloadMap, detached, connReqs, dlReqs,
                   cleanupInterval, accepted, written, traffic, daemon, limiter, cli, out>>

\* n bytes of the file pass the Throttle
ThrottleWrite(n) ==
    /\ n > 0
    /\ n <= throttle.tokens
    /\ n <= FILE_SIZE - throttle.passed
    /\ throttle' = take(throttle, n)
    /\ UNCHANGED <<now, connectionMap, downloadMap, detached, connReqs, dlReqs,
                   cleanupInterval, accepted, written, traffic, daemon, limiter, cli, out>>

----------------------------------------------------------------------------
(* CLI: the constructor parses process.argv.slice(2).  An argument list is a *)
(* sequence of tokens; indices are those of JavaScript (the first is 0).     *)

DEFAULT_PORT == 3000              \* process.env.PORT || '3000'
MAX_PORT == 65535                 \* port <= 65535
BYTES_PER_MB == 1048576           \* rate * 1024 * 1024

Tokens == {"serve", "-p", "--port", "-r", "--rate", "-H", "--host", "80", "5"}

ArgLists == UNION {[1..n -> Tokens] : n \in 0..MaxArgs}

\* the values of process.env.PORT: unset, or a port
EnvPorts == {"", "443"}

\* parseInt of a token that is no number (every comparison with it is false)
NaN == -1

\* parseInt(token)
parseInt(token) ==
    CASE token = "80" -> 80
      [] token = "443" -> 443
      [] token = "5" -> 5
      [] token = "3000" -> DEFAULT_PORT
      [] OTHER -> NaN

\* Array.prototype.indexOf: the index of the first occurrence, -1 if there is none
indexOf(args, token) ==
    IF \E i \in DOMAIN args : args[i] = token
    THEN (CHOOSE i \in DOMAIN args :
              args[i] = token /\ \A j \in DOMAIN args : args[j] = token => i <= j) - 1
    ELSE -1

\* a || b for numbers: b if a is 0, a otherwise
orElse(a, b) == IF a = 0 THEN b ELSE a

\* this.args[index]
argAt(args, index) == args[index + 1]

\* this.args.indexOf(short) || this.args.indexOf(long)
optionIndex(args, short, long) == orElse(indexOf(args, short), indexOf(args, long))

parsePort(args, envPort) ==
    LET portIndex == optionIndex(args, "-p", "--port")
        fallback == parseInt(IF envPort = "" THEN "3000" ELSE envPort)
    IN  IF portIndex # -1 /\ portIndex + 1 < Len(args)
        THEN LET port == parseInt(argAt(args, portIndex + 1))
             IN  IF port # NaN /\ port > 0 /\ port <= MAX_PORT THEN port ELSE fallback
        ELSE fallback

parseDownloadRate(args) ==
    LET rateIndex == optionIndex(args, "-r", "--rate")
    IN  IF rateIndex # -1 /\ rateIndex + 1 < Len(args)
        THEN LET rate == parseInt(argAt(args, rateIndex + 1))
             IN  IF rate # NaN /\ rate > 0 THEN rate * BYTES_PER_MB ELSE BYTES_PER_MB
        ELSE BYTES_PER_MB

parseHost(args) ==
    LET hostIndex == optionIndex(args, "-H", "--host")
    IN  IF hostIndex # -1 /\ hostIndex + 1 < Len(args)
        THEN argAt(args, hostIndex + 1)
        ELSE "localhost"

\* the process before new CLI()
NewProcess(args, envPort) ==
    [args |-> args, envPort |-> envPort, constructed |-> FALSE,
     port |-> 0, maxDownloadRate |-> 0, host |-> ""]

NoCli == NewProcess(<<>>, "")

\* new CLI()
CliConstructor ==
    /\ ~cli.constructed
    /\ cli' = [cli EXCEPT !.constructed = TRUE,
                          !.port = parsePort(cli.args, cli.envPort),
                          !.maxDownloadRate = parseDownloadRate(cli.args),
                          !.host = parseHost(cli.args)]
    /\ UNCHANGED <<now, connectionMap, downloadMap, detached, connReqs, dlReqs,
                   cleanupInterval, accepted, written, traffic, daemon, limiter, throttle, out>>

Init ==
    /\ now = 0
    /\ connectionMap = EmptyMap
    /\ downloadMap = EmptyMap
    /\ detached = EmptyMap
    /\ connReqs = EmptyBag
    /\ dlReqs = EmptyBag
    /\ cleanupInterval = TRUE
    /\ accepted = 0
    /\ written = 0
    /\ traffic \in Traffic
    /\ daemon = NoDaemon
    /\ limiter = [ip \in Clients |-> NoHits]
    /\ throttle = NoThrottle
    /\ cli = NoCli
    /\ out = NoOut

Instants == IF traffic = "requests" THEN InstantsConn ELSE InstantsDl

Next ==
    \/ \E ip \in Clients : ConnRequest(ip, MaxAccepted, MaxInFlight)
    \/ \E r \in BagToSet(connReqs) : ConnSendHeaders(r)
    \/ \E r \in BagToSet(connReqs) : ConnFinish(r)
    \/ \E r \in BagToSet(connReqs) : ConnClose(r)
    \/ \E r \in BagToSet(connReqs) : ConnRequestTimeout(r)
    \/ \E r \in BagToSet(connReqs) : ConnResponseTimeout(r)
    \/ \E r \in BagToSet(connReqs) : ConnConnectionTimeout(r)
    \/ \E ip \in Clients : DownloadRequest(ip, MaxDownloads, MaxInFlight)
    \/ \E r \in BagToSet(dlReqs), n \in ChunkSizes : DlWrite(r, n)
    \/ \E r \in BagToSet(dlReqs) : DlEnd(r)
    \/ \E r \in BagToSet(dlReqs) : DlWatchdog(r)
    \/ \E r \in BagToSet(dlReqs) : DlFinish(r)
    \/ \E r \in BagToSet(dlReqs) : DlClose(r)
    \/ Advance(Instants)
    \/ cleanupExpiredConnections
    \/ destroy

Spec == Init /\ [][Next]_vars

\* a burst of non-download requests, none of which completes, around the end of
\* the grace period
NextConnBurst ==
    \/ \E ip \in Clients : ConnRequest(ip, MaxBurst, MaxBurst)
    \/ Advance(InstantsBurst)

SpecConnBurst == Init /\ [][NextConnBurst]_vars

\* a burst of downloads, none of which completes
NextDlBurst ==
    \/ \E ip \in Clients : DownloadRequest(ip, MaxDlBurst, MaxDlBurst)
    \/ \E r \in BagToSet(dlReqs), n \in ChunkSizes : DlWrite(r, n)
    \/ Advance(InstantsDl)

SpecDlBurst == Init /\ [][NextDlBurst]_vars

\* a burst of downloads that complete or are cut by their downloadTimeout, while
\* the reaper runs
NextDlCap ==
    \/ \E ip \in Clients : DownloadRequest(ip, MaxDlBurst, MaxDlBurst)
    \/ \E r \in BagToSet(dlReqs) : DlFinish(r)
    \/ \E r \in BagToSet(dlReqs) : DlClose(r)
    \/ \E r \in BagToSet(dlReqs) : DlWatchdog(r)
    \/ cleanupExpiredConnections
    \/ Advance(InstantsDl)

SpecDlCap == Init /\ [][NextDlCap]_vars

\* downloads that write a chunk within the first seconds
NextSampling ==
    \/ \E ip \in Clients : DownloadRequest(ip, MaxDlBurst, MaxDlBurst)
    \/ \E r \in BagToSet(dlReqs), n \in ChunkSizes : DlWrite(r, n)
    \/ Advance(InstantsSample)

SpecSampling == Init /\ [][NextSampling]_vars

\* downloads cut by their downloadTimeout or completing around the end of the
\* block, while the reaper runs
NextLapse ==
    \/ \E ip \in Clients : DownloadRequest(ip, MaxDownloads, MaxInFlight)
    \/ \E r \in BagToSet(dlReqs) : DlWatchdog(r)
    \/ \E r \in BagToSet(dlReqs) : DlFinish(r)
    \/ \E r \in BagToSet(dlReqs) : DlClose(r)
    \/ cleanupExpiredConnections
    \/ Advance(InstantsLapse)

SpecLapse == Init /\ [][NextLapse]_vars

\* non-download requests of which some are answered before their body has
\* arrived in full
NextLate ==
    \/ \E ip \in Clients : ConnRequest(ip, MaxAccepted, MaxInFlight)
    \/ \E r \in BagToSet(connReqs) : ConnSendHeaders(r)
    \/ \E r \in BagToSet(connReqs) : ConnFinish(r)
    \/ \E r \in BagToSet(connReqs) : ConnFinishEarly(r)
    \/ \E r \in BagToSet(connReqs) : ConnClose(r)
    \/ \E r \in BagToSet(connReqs) : ConnRequestTimeout(r)
    \/ \E r \in BagToSet(connReqs) : ConnLateRequestTimeout(r)
    \/ \E r \in BagToSet(connReqs) : ConnConnectionTimeout(r)
    \/ Advance(InstantsConn)

SpecLate == Init /\ [][NextLate]_vars

\* requests and downloads that complete only by being terminated: by their
\* connection timeout, or by their downloadTimeout
NextForced ==
    \/ \E ip \in Clients : ConnRequest(ip, MaxAccepted, MaxInFlight)
    \/ \E r \in BagToSet(connReqs) : ConnConnectionTimeout(r)
    \/ \E r \in {q \in BagToSet(connReqs) : q.st = "ended"} : ConnFinish(r)
    \/ \E r \in {q \in BagToSet(connReqs) : q.st # "open"} : ConnClose(r)
    \/ \E ip \in Clients : DownloadRequest(ip, MaxDownloads, MaxInFlight)
    \/ \E r \in BagToSet(dlReqs) : DlWatchdog(r)
    \/ \E r \in {q \in BagToSet(dlReqs) : q.st = "ended"} : DlFinish(r)
    \/ \E r \in {q \in BagToSet(dlReqs) : q.st # "open"} : DlClose(r)
    \/ Advance(Instants)

SpecForced == Init /\ [][NextForced]_vars

\* a client that sends bursts of both non-download requests and downloads
InitMixed ==
    /\ now = 0
    /\ connectionMap = EmptyMap
    /\ downloadMap = EmptyMap
    /\ detached = EmptyMap
    /\ connReqs = EmptyBag
    /\ dlReqs = EmptyBag
    /\ cleanupInterval = TRUE
    /\ accepted = 0
    /\ written = 0
    /\ traffic = "mixed"
    /\ daemon = NoDaemon
    /\ limiter = [ip \in Clients |-> NoHits]
    /\ throttle = NoThrottle
    /\ cli = NoCli
    /\ out = NoOut

NextMixed ==
    \/ \E ip \in Clients : ConnRequest(ip, MaxMixed, MaxMixed)
    \/ \E ip \in Clients : DownloadRequest(ip, MaxMixed, MaxDlBurst)
    \/ Advance(InstantsMixed)

SpecMixed == InitMixed /\ [][NextMixed]_vars

\* bursts of requests or downloads while the reaper runs and the system clock is
\* set forward or backward
NextClock ==
    \/ \E ip \in Clients : ConnRequest(ip, MaxMixed, MaxMixed)
    \/ \E ip \in Clients : DownloadRequest(ip, MaxDlBurst, MaxDlBurst)
    \/ cleanupExpiredConnections
    \/ Advance(InstantsClock)
    \/ ClockAdjust(InstantsClock)

SpecClock == Init /\ [][NextClock]_vars

\* a client whose requests send nothing while the service is shut down and exits
\* FORCED_EXIT_DELAY later
NextShutdown ==
    \/ \E ip \in Clients : ConnRequest(ip, MaxShutdown, MaxShutdown)
    \/ \E r \in BagToSet(connReqs) : ConnRequestTimeout(r)
    \/ destroy
    \/ Advance(InstantsShutdown)

SpecShutdown == Init /\ [][NextShutdown]_vars

\* The service while it runs, with the requests of which the timers can come due
\* within the instants of the run.  A timer that is due fires, and 'finish' is
\* emitted for a response that a handler has ended; whether and when a response
\* completes by itself or its connection closes is up to the route and the client.
ConnRequestInTime ==
    /\ \E t \in InstantsLive : t >= now + CONNECTION_TIMEOUT
    /\ \E ip \in Clients : ConnRequest(ip, MaxLive, MaxInFlight)

ConnTimerDue == \E r \in BagToSet(connReqs) : ConnConnectionTimeout(r)

ConnFinishEnded == \E r \in {q \in BagToSet(connReqs) : q.st = "ended"} : ConnFinish(r)

NextLive ==
    \/ ConnRequestInTime
    \/ \E r \in BagToSet(connReqs) : ConnSendHeaders(r)
    \/ \E r \in {q \in BagToSet(connReqs) : q.st = "open"} : ConnFinish(r)
    \/ \E r \in BagToSet(connReqs) : ConnClose(r)
    \/ \E r \in BagToSet(connReqs) : ConnRequestTimeout(r)
    \/ ConnTimerDue
    \/ ConnFinishEnded
    \/ cleanupExpiredConnections
    \/ Advance(InstantsLive)

SpecLive ==
    /\ Init
    /\ [][NextLive]_vars
    /\ WF_vars(Advance(InstantsLive))
    /\ WF_vars(ConnTimerDue)
    /\ WF_vars(ConnFinishEnded)

\* the commands `serve -d`, `stop` and `status`, run one after the other, and
\* the daemons they manage
NextDaemon ==
    \/ runServer
    \/ stopDaemon
    \/ showStatus
    \/ \E pid \in daemon.alive : DaemonExits(pid)

SpecDaemon == Init /\ [][NextDaemon]_vars

\* The maps as two clients have made them when a caller reads the statistics.  A
\* client has sent no request, or some at instant 0, of which some have timed out
\* and some have completed by CONNECTION_TIMEOUT; it has started no download,
\* or some at instant 0 or at CONNECTION_TIMEOUT, of which one may have written a
\* slow sample and some have completed.  The middleware registers a request or a
\* download only if its admit check has not denied it.
RECURSIVE addConnections(_, _, _, _)
addConnections(m, ip, t, n) ==
    IF n = 0 THEN m
    ELSE addConnections(IF isIpBlocked(m, ip, t) THEN m ELSE addConnection(m, ip, t),
                        ip, t, n - 1)

RECURSIVE recordTimeouts(_, _, _, _)
recordTimeouts(m, ip, t, n) ==
    IF n = 0 THEN m ELSE recordTimeouts(recordTimeout(m, ip, t), ip, t, n - 1)

RECURSIVE removeConnections(_, _, _, _)
removeConnections(m, ip, t, n) ==
    IF n = 0 THEN m ELSE removeConnections(removeConnection(m, ip, t), ip, t, n - 1)

RECURSIVE addDownloads(_, _, _, _)
addDownloads(m, ip, t, n) ==
    IF n = 0 THEN m
    ELSE addDownloads(IF isDownloadBlocked(m, ip, t) THEN m ELSE addDownload(m, ip, t, 1),
                      ip, t, n - 1)

RECURSIVE removeDownloads(_, _, _, _)
removeDownloads(m, ip, t, n) ==
    IF n = 0 THEN m ELSE removeDownloads(removeDownload(m, ip, t), ip, t, n - 1)

StatsStart == CONNECTION_TIMEOUT

connectionsOfClient(m, ip, sent, timedOut, done) ==
    removeConnections(recordTimeouts(addConnections(m, ip, 0, sent), ip, StatsStart, timedOut),
                      ip, StatsStart, done)

downloadsOfClient(m, ip, t, started, slow, done) ==
    LET m1 == addDownloads(m, ip, t, started)
        m2 == IF slow
              THEN [m1 EXCEPT ![ip] = sampleTransfer(@, 1, t, t + SAMPLE_INTERVAL + 1)]
              ELSE m1
    IN  removeDownloads(m2, ip, StatsStart, done)

InitStats ==
    /\ now = StatsStart
    /\ \E na, nb \in {0, 1, MaxStats}, ta, tb \in {0, 3 * MaxStats - 1}, da, db \in {0, 1} :
          connectionMap =
              LET ma == IF na > 0 THEN connectionsOfClient(EmptyMap, "a", na, Min(ta, 3 * na), da)
                                  ELSE EmptyMap
              IN  IF nb > 0 THEN connectionsOfClient(ma, "b", nb, Min(tb, 3 * nb), db) ELSE ma
    /\ \E na, nb \in {0, 1, MaxStatsDownloads}, ta, tb \in {0, StatsStart},
          sa, sb \in BOOLEAN, da, db \in {0, 1} :
          downloadMap =
              LET ma == IF na > 0 THEN downloadsOfClient(EmptyMap, "a", ta, na, sa, da)
                                  ELSE EmptyMap
              IN  IF nb > 0 THEN downloadsOfClient(ma, "b", tb, nb, sb, db) ELSE ma
    /\ detached = EmptyMap
    /\ connReqs = EmptyBag
    /\ dlReqs = EmptyBag
    /\ cleanupInterval = TRUE
    /\ accepted = 0
    /\ written = 0
    /\ traffic = "mixed"
    /\ daemon = NoDaemon
    /\ limiter = [ip \in Clients |-> NoHits]
    /\ throttle = NoThrottle
    /\ cli = NoCli
    /\ out = NoOut

NextStats ==
    \/ Advance(InstantsStats)
    \/ GetStats

SpecStats == InitStats /\ [][NextStats]_vars

\* BackupServer as it is set up: requests pass the middleware of setupMiddleware;
\* the reaper runs and gracefulShutdown calls destroy()
NextServer ==
    \/ \E ip \in Clients, path \in Paths, method \in Methods, userAgent \in BOOLEAN :
          ServerRequest(ip, path, method, userAgent)
    \/ Advance(InstantsServer)
    \/ cleanupExpiredConnections
    \/ destroy

SpecServer == Init /\ [][NextServer]_vars

\* BackupServer with requests that succeed and requests that raise an error
NextErrors ==
    \/ \E ip \in Clients, path \in Paths, method \in Methods, userAgent \in BOOLEAN :
          ServerRequest(ip, path, method, userAgent)
    \/ \E ip \in Clients, path \in Paths, method \in Methods, userAgent \in BOOLEAN,
          thrownBy \in {"json", "route"}, env \in Environments :
          ServerFailure(ip, path, method, userAgent, thrownBy, env)
    \/ Advance(InstantsServer)

SpecErrors == Init /\ [][NextErrors]_vars

\* one download of FILE_SIZE bytes through a Throttle, for every burst capacity
\* and for a bucket that starts empty or full
InitThrottle ==
    /\ now = 0
    /\ connectionMap = EmptyMap
    /\ downloadMap = EmptyMap
    /\ detached = EmptyMap
    /\ connReqs = EmptyBag
    /\ dlReqs = EmptyBag
    /\ cleanupInterval = TRUE
    /\ accepted = 0
    /\ written = 0
    /\ traffic = "downloads"
    /\ daemon = NoDaemon
    /\ limiter = [ip \in Clients |-> NoHits]
    /\ \E capacity \in BurstCapacities :
          \E tokens \in {0, capacity} : throttle = NewThrottle(capacity, tokens)
    /\ cli = NoCli
    /\ out = NoOut

NextThrottle ==
    \/ ThrottleTick
    \/ \E n \in {READ_CHUNK, Min(throttle.tokens, FILE_SIZE - throttle.passed)} :
          ThrottleWrite(n)

SpecThrottle == InitThrottle /\ [][NextThrottle]_vars

\* the CLI started with every argument list of at most MaxArgs tokens
InitCli ==
    /\ now = 0
    /\ connectionMap = EmptyMap
    /\ downloadMap = EmptyMap
    /\ detached = EmptyMap
    /\ connReqs = EmptyBag
    /\ dlReqs = EmptyBag
    /\ cleanupInterval = TRUE
    /\ accepted = 0
    /\ written = 0
    /\ traffic = "requests"
    /\ daemon = NoDaemon
    /\ limiter = [ip \in Clients |-> NoHits]
    /\ throttle = NoThrottle
    /\ \E args \in ArgLists, envPort \in EnvPorts : cli = NewProcess(args, envPort)
    /\ out = NoOut

NextCli == CliConstructor

SpecCli == InitCli /\ [][NextCli]_vars




----------------------------------------------------------------------------
(* Properties *)

\* the accepted requests of ip in reqs for which the unregister path has not run
Uncompleted(reqs, ip) ==
    LET rs == {r \in BagToSet(reqs) : r.ip = ip /\ r.st # "finished"}
    IN  BagCardinality([r \in rs |-> CopiesIn(r, reqs)])

\* C1: in every reachable state the connections counter of every connection
\* entry and the activeDownloads counter of every download entry are >= 0
C1_CountersNeverNegative ==
    /\ \A ip \in DOMAIN connectionMap : connectionMap[ip].connections >= 0
    /\ \A ip \in DOMAIN downloadMap : downloadMap[ip].activeDownloads >= 0

\* C1 happens: 'close' has run the unregister path of a request after 'finish'
\* had, on an entry whose counter was already 0
C1_ClosedAfterFinishAtZero ==
    /\ out.ev = "close" /\ out.again /\ out.guard = "conn"
    /\ out.ip \in DOMAIN connectionMap
    /\ connectionMap[out.ip].connections = 0

\* C2: when 'close' runs the unregister path of a request for which 'finish'
\* already ran it, the client's counter (connections, activeDownloads) is the
\* same after the call as before
C2_SecondUnregisterLeavesCounter ==
    [][/\ (/\ out'.ev = "close" /\ out'.again /\ out'.guard = "conn"
            /\ out'.ip \in DOMAIN connectionMap)
           => connectionMap'[out'.ip].connections = connectionMap[out'.ip].connections
       /\ (/\ out'.ev = "close" /\ out'.again /\ out'.guard = "dl"
            /\ out'.ip \in DOMAIN downloadMap)
           => downloadMap'[out'.ip].activeDownloads = downloadMap[out'.ip].activeDownloads
      ]_vars

\* C2 fails: 'close' after 'finish' has taken a second unit off the counter,
\* which now counts fewer requests than the client has in flight
C2_SecondUnregisterTookAnother ==
    /\ out.ev = "close" /\ out.again /\ out.guard = "conn"
    /\ out.ip \in DOMAIN connectionMap
    /\ connectionMap[out.ip].connections < Uncompleted(connReqs, out.ip)

\* C3: for every client, connections equals the number of its accepted
\* non-download requests not yet completed, and activeDownloads the number of its
\* accepted downloads not yet completed
\* (while the guard is running: destroy is not among the events of the claim)
C3_CountersEqualUncompleted ==
    cleanupInterval =>
        \A ip \in Clients :
            /\ ip \in DOMAIN connectionMap
                   => connectionMap[ip].connections = Uncompleted(connReqs, ip)
            /\ ip \in DOMAIN downloadMap
                   => downloadMap[ip].activeDownloads = Uncompleted(dlReqs, ip)

\* C3 fails: a download entry counts fewer downloads than the client has in flight
C3_FewerThanInFlight ==
    /\ cleanupInterval
    /\ \E ip \in DOMAIN downloadMap :
           downloadMap[ip].activeDownloads < Uncompleted(dlReqs, ip)

\* C4: a reaper tick removes no connection entry with connections > 0 and no
\* download entry with activeDownloads > 0
C4_TickKeepsEntriesInUse ==
    [][cleanupExpiredConnections =>
          /\ \A ip \in DOMAIN connectionMap :
                 connectionMap[ip].connections > 0 => ip \in DOMAIN connectionMap'
          /\ \A ip \in DOMAIN downloadMap :
                 downloadMap[ip].activeDownloads > 0 => ip \in DOMAIN downloadMap'
      ]_vars

\* the events of setupConnectionTimeouts
TimeoutEvents == {"requestTimeout", "responseTimeout", "connectionTimeout"}

\* the step blocks the connection entry of ip, or blocks it anew
BlocksConnection(ip) ==
    /\ ip \in DOMAIN connectionMap'
    /\ connectionMap'[ip].isBlocked
    /\ \/ ip \notin DOMAIN connectionMap
       \/ ~connectionMap[ip].isBlocked
       \/ connectionMap'[ip].blockUntil # connectionMap[ip].blockUntil

\* C5 as stated: a client whose connections stay strictly below the adaptive
\* threshold at every register (every client of Spec: see C5_BlockedOnlyByTimeout)
\* is never blocked by the connection guard
C5_BelowThresholdNeverBlocked ==
    \A ip \in DOMAIN connectionMap : ~connectionMap[ip].isBlocked

\* C5 amended: every register leaves the client's connections strictly below
\* the adaptive threshold, and such a client is blocked by no register, finish,
\* close or tick: its entry is blocked only by a timeout event, which leaves
\* timeoutCount > 10 and timeoutCount / max(requestCount, 1) > 0.7
C5_BlockedOnlyByTimeout ==
    [][\A ip \in Clients :
          /\ (accepted' = accepted + 1 /\ ip \in DOMAIN connectionMap')
                 => connectionMap'[ip].connections
                        < adaptiveThreshold(now - connectionMap'[ip].firstConnection)
          /\ BlocksConnection(ip)
                 => /\ out'.ev \in TimeoutEvents
                    /\ connectionMap'[ip].timeoutCount > MIN_TIMEOUT_SAMPLE
                    /\ timeoutRatioAbove(connectionMap'[ip], 7, 10)
                    /\ connectionMap'[ip].blockUntil = now + SLOW_LORIS_BLOCK_DURATION
      ]_vars

\* C5 happens: a timeout has just blocked a client that has fewer connections
\* than the lowest adaptive threshold
C5_TimeoutBlockedBelowThreshold ==
    /\ out.ev \in TimeoutEvents
    /\ out.ip \in DOMAIN connectionMap
    /\ connectionMap[out.ip].isBlocked
    /\ connectionMap[out.ip].blockUntil = now + SLOW_LORIS_BLOCK_DURATION
    /\ connectionMap[out.ip].connections < BASELINE_THRESHOLD

C7_SixthDownloadDenied ==
    [][\A ip \in Clients :
          (/\ DownloadRequest(ip, MaxDlBurst, MaxDlBurst)
           /\ ip \in DOMAIN downloadMap
           /\ downloadMap[ip].activeDownloads = MAX_SLOW_DOWNLOADS
           /\ Uncompleted(dlReqs, ip) = MAX_SLOW_DOWNLOADS)
              => /\ out'.ev = "deny" /\ out'.status = 429
                 /\ dlReqs' = dlReqs
      ]_vars

\* C7 fails: five downloads are in flight, a sixth one, requested later, was
\* accepted (its register blocked the client) and has written bytes
C7_SixthDownloadStreams ==
    \E ip \in DOMAIN downloadMap :
        /\ Uncompleted(dlReqs, ip) = MAX_SLOW_DOWNLOADS + 1
        /\ downloadMap[ip].isBlocked
        /\ \E r \in BagToSet(dlReqs) :
               /\ r.ip = ip /\ CopiesIn(r, dlReqs) = 1 /\ r.bytes > 0
               /\ \A q \in BagToSet(dlReqs) : q # r => q.start < r.start
               /\ downloadMap[ip].blockUntil = r.start + DOWNLOAD_BLOCK_DURATION

\* the step blocks the download entry of ip, or blocks it anew
BlocksDownload(ip) ==
    /\ ip \in DOMAIN downloadMap'
    /\ downloadMap'[ip].isBlocked
    /\ \/ ip \notin DOMAIN downloadMap
       \/ ~downloadMap[ip].isBlocked
       \/ downloadMap'[ip].blockUntil # downloadMap[ip].blockUntil

C9_SlowDownloadEndedAndBlocked ==
    [][\A ip \in Clients :
          /\ (/\ out'.ev = "downloadTimeout" /\ out'.ip = ip /\ out'.paced
              /\ accepted = 1 /\ cleanupInterval)
                 => /\ out'.ended
                    /\ \A r \in BagToSet(dlReqs) :
                          /\ r.st = "open"
                          /\ out'.status = IF r.hs THEN 0 ELSE 408
                    /\ \A r \in BagToSet(dlReqs') : r.st = "ended"
                    /\ isDownloadBlocked(downloadMap', ip, now')
                    /\ downloadMap'[ip].blockUntil = now + DOWNLOAD_BLOCK_DURATION
          /\ (/\ accepted = 1 /\ cleanupInterval'
              /\ isDownloadBlocked(downloadMap, ip, now)
              /\ now' < downloadMap[ip].blockUntil)
                 => /\ isDownloadBlocked(downloadMap', ip, now')
                    /\ accepted' = accepted
                    /\ (out'.guard = "dl" /\ out'.ev \in {"deny", "accept"})
                           => out'.ev = "deny" /\ out'.status = 429
      ]_vars

\* C9 happens: the client's only download was written at 64 bytes per second,
\* its downloadTimeout blocked the client at MAX_DOWNLOAD_DURATION, and the
\* client's next download has just been denied
C9_NextDownloadDenied ==
    /\ out.ev = "deny" /\ out.guard = "dl" /\ out.status = 429
    /\ accepted = 1 /\ cleanupInterval
    /\ out.ip \in DOMAIN downloadMap
    /\ downloadMap[out.ip].isBlocked
    /\ downloadMap[out.ip].blockUntil = MAX_DOWNLOAD_DURATION + DOWNLOAD_BLOCK_DURATION
    /\ downloadMap[out.ip].transferRate > 0
    /\ downloadMap[out.ip].transferRate <= 64
    /\ \A r \in BagToSet(dlReqs) : r.st = "ended" /\ r.bytes > 0

\* C10 as stated: the retryAfter of every denial, by either guard, is
\* ceil((blockUntil - now) / 1000) for the entry that caused the denial, is at
\* least 1, and is at most the block duration in seconds
C10_RetryAfterWithinBounds ==
    out.ev = "deny" =>
        LET blockTime == IF out.guard = "conn"
                         THEN getBlockTime(connectionMap, out.ip)
                         ELSE getDownloadBlockTime(downloadMap, out.ip)
            duration == IF out.guard = "conn"
                        THEN SLOW_LORIS_BLOCK_DURATION
                        ELSE DOWNLOAD_BLOCK_DURATION
        IN  /\ out.retryAfter * MS_PER_SECOND >= blockTime - now
            /\ (out.retryAfter - 1) * MS_PER_SECOND < blockTime - now
            /\ out.retryAfter >= 1
            /\ out.retryAfter * MS_PER_SECOND <= duration

\* C10 fails: a client blocked until T has just been denied with retryAfter 0,
\* the clock having read T - 1 in isIpBlocked and T in the response
C10_DeniedWithRetryAfterZero ==
    /\ out.ev = "deny" /\ out.status = 429
    /\ out.retryAfter = 0
    /\ out.ip \in DOMAIN connectionMap
    /\ connectionMap[out.ip].isBlocked
    /\ connectionMap[out.ip].blockUntil = now

\* C11 as stated: every request that BackupServer passes to a route handler was
\* handled by the middleware of the connection guard or of the download guard
C11_RoutedRequestsPassedAGuard ==
    out.ev = "route" => out.guard \in {"conn", "dl"}

\* C11 fails: a request has reached its route handler and no guard has seen it:
\* both tracker maps are empty
C11_RoutedWithoutGuard ==
    /\ out.ev = "route" /\ out.guard = "" /\ out.status = 200
    /\ connectionMap = EmptyMap /\ downloadMap = EmptyMap

\* C12 as stated: when a request, response or connection timeout fires for an
\* accepted request, the client receives 408 if the headers are unsent, and the
\* response is ended if the headers were sent
C12_TimeoutAnswersOrTerminates ==
    out.ev \in TimeoutEvents =>
        /\ ~out.sent => out.status = 408
        /\ out.sent => out.ended

\* C12 fails: a request or response timeout has fired for a request whose headers
\* were sent, and the request is still open
C12_TimeoutLeftResponseOpen ==
    /\ out.ev \in {"requestTimeout", "responseTimeout"}
    /\ out.sent /\ ~out.ended /\ out.status = 0
    /\ \E r \in BagToSet(connReqs) :
          r.ip = out.ip /\ r.st = "open" /\ r.hs /\ (r.reqT \/ r.resT)

\* C13: a reaper tick removes every connection entry that has no connection and
\* whose lastActivity is more than 600000 ms old, and every download entry that
\* has no active download and whose lastActivity is more than 1800000 ms old
C13_TickRemovesIdleEntries ==
    [][cleanupExpiredConnections =>
          \A ip \in Clients :
             /\ (/\ ip \in DOMAIN connectionMap
                 /\ connectionMap[ip].connections = 0
                 /\ now - connectionMap[ip].lastActivity > CONNECTION_EXPIRY)
                    => ip \notin DOMAIN connectionMap'
             /\ (/\ ip \in DOMAIN downloadMap
                 /\ downloadMap[ip].activeDownloads = 0
                 /\ now - downloadMap[ip].lastActivity > DOWNLOAD_EXPIRY)
                    => ip \notin DOMAIN downloadMap'
      ]_vars

\* C13 happens: a tick has just removed the idle connection entry of a client
\* that was not blocked
C13_IdleEntryRemoved ==
    /\ out.ev = "tick" /\ out.idle # {}
    /\ traffic = "requests"
    /\ connectionMap = EmptyMap
    /\ connReqs = EmptyBag
    /\ now < 2 * CONNECTION_TIMEOUT + SLOW_LORIS_BLOCK_DURATION

\* C14 as stated: a download of 10,485,760 bytes through a Throttle of 1,048,576
\* bytes per second never completes in fewer than 10 seconds, whatever the burst
\* capacity and whether the bucket starts empty or full
C14_TenSecondsAtLeast ==
    throttle.passed = FILE_SIZE => throttle.elapsed >= 10 * TicksPerSecond

\* C14 amended: the bytes passed never exceed the tokens the bucket started with
\* plus the tokens of the time elapsed, so the download never completes in fewer
\* than (10,485,760 - initial tokens) / 1,048,576 seconds, which is 10 seconds
\* for a bucket that starts empty
C14_TenSecondsLessTheBurst ==
    /\ throttle.passed * TicksPerSecond
           <= throttle.initial * TicksPerSecond + throttle.elapsed * THROTTLE_RATE
    /\ throttle.passed = FILE_SIZE =>
          /\ throttle.elapsed * THROTTLE_RATE
                 >= (FILE_SIZE - throttle.initial) * TicksPerSecond
          /\ throttle.initial = 0 => throttle.elapsed >= 10 * TicksPerSecond

\* C14 happens: the download has completed through a bucket that started empty,
\* exactly 10 seconds after it began
C14_CompletedInTenSeconds ==
    /\ throttle.passed = FILE_SIZE
    /\ throttle.initial = 0
    /\ throttle.elapsed = 10 * TicksPerSecond

\* C15 as stated: a request that is the 21st or a later one of its client within
\* one minute (one window of the rate limiter) is answered with 429
C15_LimitedAboveTwentyPerMinute ==
    [][\A ip \in Clients :
          (/\ limiter'[ip] # limiter[ip]
           /\ limiter'[ip].totalHits > README_RATE_LIMIT)
              => out'.status = 429
      ]_vars

\* C15 fails: the 21st request of a client within one minute has reached its
\* route handler
C15_TwentyFirstRequestServed ==
    /\ out.ev = "route" /\ out.status = 200
    /\ limiter[out.ip].totalHits = README_RATE_LIMIT + 1
    /\ now < limiter[out.ip].resetTime
    /\ limiter[out.ip].resetTime <= RATE_LIMIT_WINDOW

\* the argument list with every long option form replaced by its short form
ShortForms(args) ==
    [i \in DOMAIN args |->
        CASE args[i] = "--port" -> "-p"
          [] args[i] = "--rate" -> "-r"
          [] args[i] = "--host" -> "-H"
          [] OTHER -> args[i]]

\* C16 as stated: for every argument list, the CLI constructed from it has the
\* port, the download rate and the host of the CLI constructed from the list in
\* which -p, -r and -H stand for --port, --rate and --host
C16_LongFormsLikeShortForms ==
    cli.constructed =>
        /\ cli.port = parsePort(ShortForms(cli.args), cli.envPort)
        /\ cli.maxDownloadRate = parseDownloadRate(ShortForms(cli.args))
        /\ cli.host = parseHost(ShortForms(cli.args))

\* C16 fails: the CLI started with serve --port 80 listens on the default port
C16_LongPortIgnored ==
    /\ cli.constructed
    /\ cli.args = <<"serve", "--port", "80">>
    /\ cli.envPort = ""
    /\ cli.port = DEFAULT_PORT

\* the condition of C17 on the entry after the increments
\* (ratioThreshold is the 0.5 of addConnection, hardCap the cap of adaptiveThreshold)
BlockConditionWithOneCap(tr, t) ==
    /\ tr.connections > adaptiveThreshold(t - tr.firstConnection)
    /\ t - tr.firstConnection > SLOW_LORIS_GRACE_PERIOD
    /\ (timeoutRatioAbove(tr, 1, 2) \/ tr.connections > MAX_CONCURRENT_CONNECTIONS)

\* C17 as stated: a register of the connection guard sets isBlocked and
\* blockUntil = now + SLOW_LORIS_BLOCK_DURATION exactly when, after the
\* increments, connections > adaptiveThreshold, the time since the first
\* connection exceeds the grace period and the timeout ratio exceeds the ratio
\* threshold or connections exceed the cap of adaptiveThreshold; every other
\* register leaves isBlocked and blockUntil as the admit check left them
C17_RegisterBlocksOnOneCap ==
    [][\A ip \in Clients :
          (out'.ev = "accept" /\ out'.guard = "conn" /\ out'.ip = ip
           /\ accepted' = accepted + 1)
              => LET before == isIpBlockedEffect(connectionMap, ip, now)
                     tr == connectionMap'[ip]
                 IN  IF BlockConditionWithOneCap(tr, now)
                     THEN /\ tr.isBlocked
                          /\ tr.blockUntil = now + SLOW_LORIS_BLOCK_DURATION
                     ELSE /\ tr.isBlocked = (ip \in DOMAIN before /\ before[ip].isBlocked)
                          /\ tr.blockUntil = getBlockTime(before, ip)
      ]_vars

\* C17 fails: the 51st concurrent connection of a client without a timeout,
\* registered after the grace period, has blocked the client
C17_BlockedAtFiftyOne ==
    /\ out.ev = "accept" /\ out.guard = "conn"
    /\ out.ip \in DOMAIN connectionMap
    /\ connectionMap[out.ip].connections = MAX_SLOW_CONNECTIONS + 1
    /\ connectionMap[out.ip].timeoutCount = 0
    /\ connectionMap[out.ip].isBlocked
    /\ connectionMap[out.ip].blockUntil = now + SLOW_LORIS_BLOCK_DURATION

\* C18 as stated: every request, response or connection timeout that fires for an
\* accepted request leaves the client with an entry whose timeoutCount is one
\* more than before (than 0, if the client had no entry)
C18_TimeoutAlwaysCounted ==
    [][\A ip \in Clients :
          (out'.ev \in TimeoutEvents /\ out'.ip = ip)
              => /\ ip \in DOMAIN connectionMap'
                 /\ connectionMap'[ip].timeoutCount
                        = (IF ip \in DOMAIN connectionMap
                           THEN connectionMap[ip].timeoutCount ELSE 0) + 1
      ]_vars

\* C18 fails: a timeout has fired for an accepted request after destroy() cleared
\* the maps, and the client has no entry that counts it
C18_TimeoutNotCounted ==
    /\ out.ev \in TimeoutEvents
    /\ ~cleanupInterval
    /\ out.ip \notin DOMAIN connectionMap
    /\ \E r \in BagToSet(connReqs) : r.ip = out.ip

\* C19: a timeout event of a client that has an entry sets isBlocked and
\* blockUntil = now + SLOW_LORIS_BLOCK_DURATION exactly when, after the
\* increment, timeoutCount / max(requestCount, 1) > 0.7 and timeoutCount > 10,
\* whatever the connections of the entry and the time since its first
\* connection; every other timeout event leaves isBlocked and blockUntil as
\* they were
C19_TimeoutBlocksOnRatioAndSample ==
    [][\A ip \in Clients :
          (out'.ev \in TimeoutEvents /\ out'.ip = ip /\ ip \in DOMAIN connectionMap)
              => LET tr == connectionMap'[ip]
                 IN  /\ tr.timeoutCount = connectionMap[ip].timeoutCount + 1
                     /\ tr.connections = connectionMap[ip].connections
                     /\ IF /\ tr.timeoutCount * 10 > 7 * Max(tr.requestCount, 1)
                           /\ tr.timeoutCount > MIN_TIMEOUT_SAMPLE
                        THEN /\ tr.isBlocked
                             /\ tr.blockUntil = now + SLOW_LORIS_BLOCK_DURATION
                        ELSE /\ tr.isBlocked = connectionMap[ip].isBlocked
                             /\ tr.blockUntil = connectionMap[ip].blockUntil
      ]_vars

\* C19 happens: the eleventh timeout of a client has just blocked it, while none
\* of its connections is counted any more
C19_EleventhTimeoutBlocked ==
    /\ out.ev \in TimeoutEvents
    /\ out.ip \in DOMAIN connectionMap
    /\ connectionMap[out.ip].timeoutCount = MIN_TIMEOUT_SAMPLE + 1
    /\ connectionMap[out.ip].connections = 0
    /\ connectionMap[out.ip].isBlocked
    /\ connectionMap[out.ip].blockUntil = now + SLOW_LORIS_BLOCK_DURATION

\* C20: a download register that raises activeDownloads above
\* MAX_SLOW_DOWNLOADS blocks the entry until now + DOWNLOAD_BLOCK_DURATION in the
\* same step, and a register that leaves activeDownloads at or below it leaves
\* the entry unblocked; while the service runs, an entry blocked by a register
\* (one whose last activity is less than DOWNLOAD_BLOCK_DURATION old) stays
\* blocked until its blockUntil, which is never brought forward, and no download
\* of the client is accepted before
C20_RegisterAboveCapBlocks ==
    [][\A ip \in Clients :
          /\ (out'.ev = "accept" /\ out'.guard = "dl" /\ out'.ip = ip)
                => LET tr == downloadMap'[ip]
                   IN  IF tr.activeDownloads > MAX_SLOW_DOWNLOADS
                       THEN /\ tr.isBlocked
                            /\ tr.blockUntil = now + DOWNLOAD_BLOCK_DURATION
                       ELSE ~tr.isBlocked
          /\ (/\ cleanupInterval'
              /\ ip \in DOMAIN downloadMap /\ downloadMap[ip].isBlocked
              /\ now' < downloadMap[ip].blockUntil
              /\ now' < downloadMap[ip].lastActivity + DOWNLOAD_BLOCK_DURATION)
                => /\ ip \in DOMAIN downloadMap' /\ downloadMap'[ip].isBlocked
                   /\ downloadMap'[ip].blockUntil >= downloadMap[ip].blockUntil
                   /\ ~(out'.ev = "accept" /\ out'.guard = "dl" /\ out'.ip = ip)
      ]_vars

\* C20 happens: the sixth concurrent download of a client has blocked it, and the
\* client's next download request has just been denied
C20_DeniedAfterSixthRegister ==
    /\ out.ev = "deny" /\ out.guard = "dl" /\ out.status = 429
    /\ out.ip \in DOMAIN downloadMap
    /\ downloadMap[out.ip].activeDownloads = MAX_SLOW_DOWNLOADS + 1
    /\ BagCardinality(dlReqs) = MAX_SLOW_DOWNLOADS + 1
    /\ downloadMap[out.ip].isBlocked
    /\ \E r \in BagToSet(dlReqs) :
          downloadMap[out.ip].blockUntil = r.start + DOWNLOAD_BLOCK_DURATION

\* C21: on a write, transferRate is recomputed if and only if at least
\* SAMPLE_INTERVAL has elapsed since the last sample; when it is recomputed it is
\* the bytes written in that window (for the first write of a run, its chunk)
\* divided by the seconds elapsed in it, and slowDownloads is incremented exactly
\* when the new rate is below SLOW_DOWNLOAD_THRESHOLD
C21_SampledEverySecond ==
    [][\A ip \in Clients :
          (written' = written + 1 /\ ip \in DOMAIN downloadMap)
             => LET tr == downloadMap[ip]
                    tr2 == downloadMap'[ip]
                    elapsed == now - tr.lastTransferTime
                    recomputed == tr2.lastTransferTime # tr.lastTransferTime
                IN  /\ recomputed <=> elapsed >= SAMPLE_INTERVAL
                    /\ recomputed =>
                          /\ tr2.lastTransferTime = now
                          /\ (tr2.slowDownloads = tr.slowDownloads + 1)
                                <=> tr2.transferRate < SLOW_DOWNLOAD_THRESHOLD
                          /\ tr2.slowDownloads \in {tr.slowDownloads, tr.slowDownloads + 1}
                          /\ written = 0 =>
                                \E r \in BagToSet(dlReqs') :
                                   /\ r.bytes > 0
                                   /\ tr2.transferRate = transferRate(r.bytes, elapsed)
                    /\ ~recomputed => tr2 = tr
      ]_vars

\* C21 goes wrong: a chunk has been written exactly SAMPLE_INTERVAL after the
\* last sample (the start of the download) and no rate has been computed
C21_WriteAtOneSecondNotSampled ==
    /\ written = 1
    /\ \E r \in BagToSet(dlReqs) :
          /\ r.bytes = 64 /\ r.paced
          /\ now - r.start = SAMPLE_INTERVAL
          /\ downloadMap[r.ip].lastTransferTime = r.start
          /\ downloadMap[r.ip].transferRate = 0
          /\ downloadMap[r.ip].slowDownloads = 0

\* C22: while the service runs, the downloadTimeout of every download written at
\* no more than 64 bytes per second (none at all included) ends its response and
\* leaves the client blocked, whatever the client's other downloads and the
\* reaper have done
C22_EverySlowDownloadCut ==
    [][\A ip \in Clients :
          (/\ out'.ev = "downloadTimeout" /\ out'.ip = ip /\ out'.paced
           /\ cleanupInterval)
             => /\ out'.ended
                /\ isDownloadBlocked(downloadMap', ip, now')
      ]_vars

\* C22 goes wrong: the downloadTimeout of a download that has written nothing has
\* fired and left it open and the client unblocked, the rate in the client's
\* entry being the one sampled on another download
C22_SilentDownloadLeftOpen ==
    /\ out.ev = "downloadTimeout" /\ out.paced /\ ~out.ended
    /\ cleanupInterval
    /\ out.ip \in DOMAIN downloadMap
    /\ ~downloadMap[out.ip].isBlocked
    /\ downloadMap[out.ip].transferRate >= MIN_TRANSFER_RATE
    /\ \E r \in BagToSet(dlReqs) :
          /\ r.st = "open" /\ r.wd /\ r.bytes = 0
          /\ now - r.start >= MAX_DOWNLOAD_DURATION

\* C23: the download entry of a client is blocked only by a register that raises
\* activeDownloads above MAX_SLOW_DOWNLOADS or by the downloadTimeout of a
\* download that started at least MAX_DOWNLOAD_DURATION ago, and only such a
\* downloadTimeout ends a response for slowness; a write ends no response and
\* leaves the block of the entry as it was, a slow sample only adds one to
\* slowDownloads
C23_NoSlownessVerdictBeforeMaxDuration ==
    [][\A ip \in Clients :
          LET timedOut == \E r \in BagToSet(dlReqs) :
                             /\ r.ip = ip /\ r.st = "open"
                             /\ now - r.start >= MAX_DOWNLOAD_DURATION
                             /\ CopiesIn(r, dlReqs') < CopiesIn(r, dlReqs)
          IN  /\ BlocksDownload(ip)
                    => \/ /\ out'.ev = "accept" /\ out'.guard = "dl"
                          /\ downloadMap'[ip].activeDownloads > MAX_SLOW_DOWNLOADS
                       \/ out'.ev = "downloadTimeout" /\ timedOut
              /\ (out'.ev = "downloadTimeout" /\ out'.ip = ip /\ out'.ended)
                    => timedOut
              /\ (written' = written + 1 /\ ip \in DOMAIN downloadMap)
                    => /\ \A r \in BagToSet(dlReqs') :
                             r.st # "open" => CopiesIn(r, dlReqs') = CopiesIn(r, dlReqs)
                       /\ ip \in DOMAIN downloadMap'
                       /\ downloadMap'[ip].isBlocked = downloadMap[ip].isBlocked
                       /\ downloadMap'[ip].blockUntil = downloadMap[ip].blockUntil
                       /\ downloadMap'[ip].activeDownloads = downloadMap[ip].activeDownloads
                       /\ downloadMap'[ip].slowDownloads \in
                             {downloadMap[ip].slowDownloads, downloadMap[ip].slowDownloads + 1}
      ]_vars

\* C23 happens: a download has been sampled below SLOW_DOWNLOAD_THRESHOLD before
\* MAX_DOWNLOAD_DURATION; it is still open and the client is not blocked
C23_SlowSampleOnlyCounted ==
    /\ written = 1 /\ now < MAX_DOWNLOAD_DURATION
    /\ \E r \in BagToSet(dlReqs) :
          /\ r.st = "open" /\ r.bytes > 0
          /\ r.ip \in DOMAIN downloadMap
          /\ downloadMap[r.ip].slowDownloads = 1
          /\ downloadMap[r.ip].transferRate < SLOW_DOWNLOAD_THRESHOLD
          /\ downloadMap[r.ip].lastTransferTime = now
          /\ ~downloadMap[r.ip].isBlocked

\* C24: a reaper tick removes an entry that is not idle only when the entry is
\* blocked, its block has lapsed and its last activity is not later than the end
\* of the block
C24_LapsedBlockRemovedOnlyIfInactive ==
    [][out'.ev = "tick" =>
          /\ \A ip \in (DOMAIN connectionMap) \ (DOMAIN connectionMap') :
                connectionIdle(connectionMap[ip], now)
                \/ /\ connectionMap[ip].isBlocked
                   /\ now >= connectionMap[ip].blockUntil
                   /\ connectionMap[ip].lastActivity <= connectionMap[ip].blockUntil
          /\ \A ip \in (DOMAIN downloadMap) \ (DOMAIN downloadMap') :
                downloadIdle(downloadMap[ip], now)
                \/ /\ downloadMap[ip].isBlocked
                   /\ now >= downloadMap[ip].blockUntil
                   /\ downloadMap[ip].lastActivity <= downloadMap[ip].blockUntil
      ]_vars

\* C24 goes wrong: a tick has just removed the download entry of a client whose
\* block had lapsed and whose last activity was later than the end of the block;
\* the entry is the tracker a download in flight still holds
C24_ActiveEntryRemovedForLapsedBlock ==
    /\ out.ev = "tick" /\ out.idle = {}
    /\ \E r \in BagToSet(dlReqs) :
          /\ r.st = "open"
          /\ r.ip \notin DOMAIN downloadMap
          /\ r.tid \in DOMAIN detached
          /\ detached[r.tid].isBlocked
          /\ now >= detached[r.tid].blockUntil
          /\ detached[r.tid].lastActivity > detached[r.tid].blockUntil

\* C25: while the service runs, every step other than a reaper tick keeps every
\* entry of both maps in its map, the download entries as the same tracker
\* objects
C25_OnlyTheReaperRemoves ==
    [][(cleanupInterval' /\ out'.ev # "tick") =>
          /\ DOMAIN connectionMap \subseteq DOMAIN connectionMap'
          /\ DOMAIN downloadMap \subseteq DOMAIN downloadMap'
          /\ \A ip \in DOMAIN downloadMap : downloadMap'[ip].id = downloadMap[ip].id
      ]_vars

\* C25 happens: the second unregister of a request that timed out has run, the
\* client has no connection left, and its entry is still in the map
C25_EntryKeptAfterLastUnregister ==
    /\ out.ev = "close" /\ out.guard = "conn" /\ out.again
    /\ cleanupInterval
    /\ out.ip \in DOMAIN connectionMap
    /\ connectionMap[out.ip].connections = 0
    /\ connectionMap[out.ip].timeoutCount > 0
    /\ connReqs = EmptyBag

\* C26: every timeout of a request and every downloadTimeout fires for a request
\* whose response has neither finished nor closed
C26_NoWatcherAfterCompletion ==
    [][/\ out'.ev \in TimeoutEvents =>
             \E r \in BagToSet(connReqs) :
                /\ r.ip = out'.ip /\ r.st \in {"open", "ended"}
                /\ CopiesIn(r, connReqs') < CopiesIn(r, connReqs)
       /\ out'.ev = "downloadTimeout" =>
             \E r \in BagToSet(dlReqs) :
                /\ r.ip = out'.ip /\ r.st \in {"open", "ended"}
                /\ CopiesIn(r, dlReqs') < CopiesIn(r, dlReqs)
      ]_vars

\* C26 goes wrong: the request timeout of a request whose response had finished
\* has fired and has been counted, the client having no connection left
C26_TimeoutCountedAfterFinish ==
    /\ out.ev = "requestTimeout" /\ out.sent /\ ~out.ended
    /\ out.ip \in DOMAIN connectionMap
    /\ connectionMap[out.ip].connections = 0
    /\ connectionMap[out.ip].timeoutCount = 1
    /\ \A r \in BagToSet(connReqs) : r.st = "answered" /\ r.reqT
    /\ connReqs # EmptyBag

\* C27: when requests complete only by being terminated by a connection timeout
\* or a downloadTimeout, the 'finish' of a terminated request takes one unit off
\* the client's counter and its 'close' none
C27_TerminatedRequestUnregisteredOnce ==
    [][\A ip \in Clients :
          /\ (\E r \in BagToSet(connReqs) :
                 /\ r.ip = ip /\ r.st = "ended"
                 /\ CopiesIn(r, connReqs') < CopiesIn(r, connReqs)
                 /\ out'.ev = "none")
                => connectionMap'[ip].connections = connectionMap[ip].connections - 1
          /\ (\E r \in BagToSet(dlReqs) :
                 /\ r.ip = ip /\ r.st = "ended"
                 /\ CopiesIn(r, dlReqs') < CopiesIn(r, dlReqs)
                 /\ out'.ev = "none")
                => downloadMap'[ip].activeDownloads = downloadMap[ip].activeDownloads - 1
          /\ (out'.ev = "close" /\ out'.ip = ip /\ out'.again /\ out'.guard = "conn")
                => connectionMap'[ip].connections = connectionMap[ip].connections
          /\ (out'.ev = "close" /\ out'.ip = ip /\ out'.again /\ out'.guard = "dl")
                => downloadMap'[ip].activeDownloads = downloadMap[ip].activeDownloads
      ]_vars

\* C27 goes wrong: of two requests of a client one has been terminated by its
\* connection timeout and has finished and closed; the other is still open and
\* the client's counter is 0
C27_TerminationTookTwoUnits ==
    /\ out.ev = "close" /\ out.guard = "conn" /\ out.again
    /\ accepted = 2
    /\ out.ip \in DOMAIN connectionMap
    /\ connectionMap[out.ip].timeoutCount = 1
    /\ connectionMap[out.ip].connections = 0
    /\ BagCardinality(connReqs) = 1
    /\ \A r \in BagToSet(connReqs) : r.st = "open"

\* C28: a request of a client whose entry is blocked with the clock before
\* blockUntil is denied with 429, and a denial by either guard changes neither
\* map, registers no request with its timers and completion handlers, and does
\* not reach next()
C28_DenialProcessesNothing ==
    [][\A ip \in Clients :
          LET untouched == UNCHANGED <<connectionMap, downloadMap, detached, connReqs,
                                       dlReqs, accepted, cleanupInterval>>
          IN  /\ (/\ out'.guard = "conn" /\ out'.ev \in {"deny", "accept"} /\ out'.ip = ip
                  /\ ip \in DOMAIN connectionMap
                  /\ connectionMap[ip].isBlocked /\ now < connectionMap[ip].blockUntil)
                    => out'.ev = "deny" /\ out'.status = 429 /\ untouched
              /\ (/\ out'.guard = "dl" /\ out'.ev \in {"deny", "accept"} /\ out'.ip = ip
                  /\ ip \in DOMAIN downloadMap
                  /\ downloadMap[ip].isBlocked /\ now < downloadMap[ip].blockUntil)
                    => out'.ev = "deny" /\ out'.status = 429 /\ untouched
              /\ (out'.ev = "deny" /\ out'.ip = ip) => untouched
      ]_vars

\* C28 happens: a request of a blocked client with no connection left has been
\* denied; the entry still has the counters and the lastActivity of before
C28_DeniedWithoutTrace ==
    /\ out.ev = "deny" /\ out.guard = "conn" /\ out.status = 429
    /\ connReqs = EmptyBag
    /\ out.ip \in DOMAIN connectionMap
    /\ connectionMap[out.ip].connections = 0
    /\ connectionMap[out.ip].requestCount = accepted
    /\ connectionMap[out.ip].lastActivity < now
    /\ connectionMap[out.ip].isBlocked

\* C29: a step other than a reaper tick or destroy() that changes the connection
\* map or the requests of the connection guard changes neither the download map
\* nor the downloads, and conversely; every event of one guard leaves the other
\* guard's map as it was; a download of a client is denied only when the
\* download entry is blocked and a non-download request only when the connection
\* entry is, whatever the other entry says
C29_BlocklistsIndependent ==
    [][/\ out'.guard = "conn" =>
             UNCHANGED <<downloadMap, detached, dlReqs>>
       /\ out'.guard = "dl" =>
             UNCHANGED <<connectionMap, connReqs>>
       /\ (out'.ev # "tick" /\ cleanupInterval' = cleanupInterval)
             => \/ UNCHANGED <<downloadMap, detached, dlReqs>>
                \/ UNCHANGED <<connectionMap, connReqs>>
       /\ \A ip \in Clients :
             /\ (out'.ev = "deny" /\ out'.guard = "dl" /\ out'.ip = ip)
                   => /\ ip \in DOMAIN downloadMap
                      /\ downloadMap[ip].isBlocked /\ now < downloadMap[ip].blockUntil
             /\ (out'.ev = "deny" /\ out'.guard = "conn" /\ out'.ip = ip)
                   => /\ ip \in DOMAIN connectionMap
                      /\ connectionMap[ip].isBlocked /\ now < connectionMap[ip].blockUntil
      ]_vars

\* C29 happens: a download of a client has just been accepted while the
\* connection guard has the client blocked
C29_DownloadOfBlockedConnectionClient ==
    /\ out.ev = "accept" /\ out.guard = "dl"
    /\ isIpBlocked(connectionMap, out.ip, now)
    /\ ~downloadMap[out.ip].isBlocked
    /\ dlReqs # EmptyBag

\* C30: destroy() leaves both maps empty and the interval cleared; from then on
\* the interval stays cleared and no reaper tick runs; the 'finish', 'close' and
\* timeout events of the requests then in flight leave an empty map empty, and
\* no counter of an entry is ever negative
C30_DestroyReleasesEverything ==
    [][/\ (cleanupInterval /\ ~cleanupInterval')
             => connectionMap' = EmptyMap /\ downloadMap' = EmptyMap
       /\ ~cleanupInterval
             => /\ ~cleanupInterval'
                /\ out'.ev # "tick"
                /\ out'.ev # "accept" =>
                      /\ connectionMap = EmptyMap => connectionMap' = EmptyMap
                      /\ downloadMap = EmptyMap => downloadMap' = EmptyMap
                /\ \A ip \in DOMAIN connectionMap' :
                      connectionMap'[ip].connections >= 0
                /\ \A ip \in DOMAIN downloadMap' :
                      downloadMap'[ip].activeDownloads >= 0
      ]_vars

\* C30 happens: destroy() has run with a request in flight, which has now
\* closed; both maps are empty
C30_ClosedAfterDestroy ==
    /\ ~cleanupInterval
    /\ out.ev = "close" /\ ~out.again
    /\ accepted = 1
    /\ connectionMap = EmptyMap /\ downloadMap = EmptyMap
    /\ connReqs = EmptyBag /\ dlReqs = EmptyBag

----------------------------------------------------------------------------
----------------------------------------------------------------------------
\* C32: setting the system clock forward or backward between two events of the
\* guards changes no verdict: a blocked client stays blocked and keeps being
\* blocked for no longer than the block duration, no entry becomes due for the
\* reaper, and no elapsed time and no retryAfter is negative afterwards
C32_ClockAdjustmentChangesNothing ==
    [][out'.ev = "adjust" =>
          /\ \A ip \in DOMAIN connectionMap :
                LET tr == connectionMap[ip]
                IN  /\ isIpBlocked(connectionMap, ip, now) => isIpBlocked(connectionMap, ip, now')
                    /\ tr.isBlocked => tr.blockUntil - now' <= SLOW_LORIS_BLOCK_DURATION
                    /\ connectionExpired(tr, now') => connectionExpired(tr, now)
                    /\ now' - tr.lastActivity >= 0
                    /\ now' - tr.firstConnection >= 0
          /\ \A ip \in DOMAIN downloadMap :
                LET tr == downloadMap[ip]
                IN  /\ isDownloadBlocked(downloadMap, ip, now)
                          => isDownloadBlocked(downloadMap, ip, now')
                    /\ tr.isBlocked => tr.blockUntil - now' <= DOWNLOAD_BLOCK_DURATION
                    /\ downloadExpired(tr, now') => downloadExpired(tr, now)
                    /\ now' - tr.lastActivity >= 0]_vars

\* C32 witness: right after the clock was set forward, a client that was blocked
\* an instant ago is admitted again and the reaper would remove its entry
C32_UnblockedBySetForward ==
    /\ out.ev = "adjust"
    /\ \E ip \in DOMAIN connectionMap :
          /\ connectionMap[ip].isBlocked
          /\ ~isIpBlocked(connectionMap, ip, now)
          /\ connectionExpired(connectionMap[ip], now)
          /\ connectionMap[ip].blockUntil - SLOW_LORIS_BLOCK_DURATION = connectionMap[ip].lastActivity

----------------------------------------------------------------------------
\* C33: the body of every response with status 500 carries the generic error
\* message only, never the message of the error that was raised, whatever the
\* environment of the process and whatever the route
C33_No500ReflectsTheError ==
    out.status = 500 => ~out.detail

\* C33 fails: a request whose body the JSON parser rejected is answered with
\* status 500 and the message of the parser's error
C33_ParserMessageIn500 ==
    /\ out.ev = "error"
    /\ out.status = 500
    /\ out.detail

----------------------------------------------------------------------------
\* C34: the adaptive threshold that a register computes for an entry is at least
\* 20 and at most 100, and is not below the threshold that the previous register
\* of the same living entry computed.  (In a run of SpecClock only a register
\* writes lastActivity, which is thus the instant of the entry's last register.)
C34_ThresholdInRangeAndGrowing ==
    [][\A ip \in Clients :
          (out'.ev = "accept" /\ out'.guard = "conn" /\ out'.ip = ip)
              => LET tr == connectionMap'[ip]
                     threshold == adaptiveThreshold(now' - tr.firstConnection)
                 IN  /\ threshold >= BASELINE_THRESHOLD
                     /\ threshold <= MAX_CONCURRENT_CONNECTIONS
                     /\ (ip \in DOMAIN connectionMap
                           /\ tr.firstConnection = connectionMap[ip].firstConnection)
                          => threshold >=
                                 adaptiveThreshold(connectionMap[ip].lastActivity
                                                       - tr.firstConnection)]_vars

\* C34 fails: a living entry was registered when its threshold had grown above
\* the baseline, and its next register, after the clock was set back, has
\* computed the baseline
C34_ThresholdFellBack ==
    /\ out.ev = "accept" /\ out.guard = "conn"
    /\ \E r \in BagToSet(connReqs) :
          /\ r.ip = out.ip
          /\ r.start > now
          /\ connectionMap[r.ip].firstConnection <= now
          /\ adaptiveThreshold(r.start - connectionMap[r.ip].firstConnection)
                 > adaptiveThreshold(now - connectionMap[r.ip].firstConnection)

----------------------------------------------------------------------------
\* C35: whenever a step blocks a client's connection entry, more than the grace
\* period has elapsed since the entry's firstConnection, however many connections
\* the client holds and whatever timeouts have fired
C35_NoBlockWithinGracePeriod ==
    [][\A ip \in Clients :
          BlocksConnection(ip)
              => now' - connectionMap'[ip].firstConnection > SLOW_LORIS_GRACE_PERIOD]_vars

\* C35 fails: a timeout has blocked an entry at the very instant of its creation
C35_BlockedAtCreation ==
    /\ out.ev \in TimeoutEvents
    /\ \E ip \in DOMAIN connectionMap :
          /\ isIpBlocked(connectionMap, ip, now)
          /\ connectionMap[ip].firstConnection = now
          /\ connectionMap[ip].blockUntil = now + SLOW_LORIS_BLOCK_DURATION
          /\ connectionMap[ip].requestCount = 1

----------------------------------------------------------------------------
\* C36: a `stop` that finds the daemon of the PID file running sends it SIGTERM
\* and, by the time the command is over, the daemon runs no more (it has exited,
\* or was sent SIGKILL by the check 2 seconds later) and the PID file is removed
C36_StopEndsDaemonAndRemovesPidFile ==
    [][(daemon'.cmd = "stop" /\ daemon'.found = "running" /\ daemon' # daemon)
          => LET pid == daemon.pidFile
             IN  /\ pid \in daemon'.termed
                 /\ pid \notin daemon'.alive \/ pid \in daemon'.killed
                 /\ daemon'.pidFile = 0]_vars

\* C36 fails: `stop` is over, no timer is pending, SIGKILL was never sent, and the
\* PID file still names the daemon, which runs
C36_StopOverDaemonAndPidFileLeft ==
    /\ daemon.cmd = "stop" /\ daemon.found = "running"
    /\ daemon.timer = 0
    /\ daemon.killed = {}
    /\ daemon.pidFile \in daemon.alive
    /\ daemon.pidFile \in daemon.termed

----------------------------------------------------------------------------
\* C38: a `serve -d` that finds the PID file naming a running process starts no
\* daemon and leaves the file as it is; one that finds no file or a stale one
\* starts a daemon and writes its pid; at most one daemon runs at any time, and
\* it is the one the PID file names
C38_ServeStartsOneDaemonAtMost ==
    [][/\ (daemon'.cmd = "serve" /\ daemon' # daemon) =>
             IF daemon.pidFile # 0 /\ daemon.pidFile \in daemon.alive
             THEN /\ daemon'.alive = daemon.alive
                  /\ daemon'.spawned = daemon.spawned
                  /\ daemon'.pidFile = daemon.pidFile
                  /\ daemon'.exit = 1
             ELSE /\ daemon'.spawned = daemon.spawned + 1
                  /\ daemon'.pidFile = daemon'.spawned
                  /\ daemon'.pidFile \notin daemon.alive
                  /\ daemon'.alive = daemon.alive \cup {daemon'.pidFile}
                  /\ daemon'.exit = 0
       /\ Cardinality(daemon'.alive) <= 1
       /\ daemon'.alive \subseteq {daemon'.pidFile}]_vars

\* C38 witness: the daemon of the first `serve -d` has exited, a second `serve -d`
\* has replaced the stale file and started the second daemon, and a third one has
\* found that daemon running and has exited with code 1
C38_SecondServeRefused ==
    /\ daemon.cmd = "serve" /\ daemon.found = "running" /\ daemon.exit = 1
    /\ daemon.spawned = 2
    /\ daemon.alive = {2} /\ daemon.pidFile = 2

----------------------------------------------------------------------------
\* the accepted non-download requests for which the unregister path has not run
Registered == {r \in BagToSet(connReqs) : r.st \in {"open", "ended"}}

\* C37: every accepted non-download request is unregistered in the end: whenever
\* requests are registered, a state follows in which the unregister path has run
\* for all of them and no client's connections counter holds a unit any more
C37_EveryRequestUnregistered ==
    (Registered # {}) ~>
        (/\ Registered = {}
         /\ \A ip \in DOMAIN connectionMap : connectionMap[ip].connections = 0)

\* C37 witness: a request that sent its headers and nothing more was ended by its
\* connection timeout, CONNECTION_TIMEOUT after its start, and 'finish' has
\* released its unit
C37_ReleasedByConnectionTimeout ==
    /\ out.ev = "none"
    /\ \E r \in BagToSet(connReqs) :
          /\ r.st = "finished" /\ r.hs /\ ~r.reqT /\ ~r.resT
          /\ now = r.start + CONNECTION_TIMEOUT
          /\ connectionMap[r.ip].timeoutCount = 1
          /\ connectionMap[r.ip].connections = 0
          /\ connectionMap[r.ip].lastActivity = now

----------------------------------------------------------------------------
\* C39: the connections counter of a connection entry never exceeds its
\* requestCount, and as long as the entry lives (no step removes it) neither its
\* requestCount nor its timeoutCount decreases
C39_CountersOrderedAndMonotone ==
    [][\A ip \in DOMAIN connectionMap' :
          /\ connectionMap'[ip].connections <= connectionMap'[ip].requestCount
          /\ ip \in DOMAIN connectionMap =>
                /\ connectionMap'[ip].requestCount >= connectionMap[ip].requestCount
                /\ connectionMap'[ip].timeoutCount >= connectionMap[ip].timeoutCount]_vars

\* C39 witness: an entry that has registered several requests, has counted
\* timeouts and has unregistered some of the requests while others are open
C39_EntryWithHistory ==
    \E ip \in DOMAIN connectionMap :
        /\ connectionMap[ip].connections > 0
        /\ connectionMap[ip].connections < connectionMap[ip].requestCount
        /\ connectionMap[ip].timeoutCount > 1
        /\ out.ev = "close"

====
